---- MODULE Spec2Model ----
(***************************************************************************)
(* HOPS: higher-order functions over fixed-length arrays (map, reduce,     *)
(* zip, divide-and-conquer) and the array primitives they are built from.  *)
(*                                                                         *)
(* A std::array<T, LEN> is a function with domain 0..LEN-1, so that every  *)
(* index of the model is the index of the source.  A local array that the  *)
(* source declares without an initialiser holds Undef at every index until *)
(* a loop of the source assigns it.                                        *)
(***************************************************************************)
EXTENDS Integers, Sequences, FiniteSets, TLC

VARIABLES
    pc,         \* position of the driver: which call has been made
    fn,         \* the callable handed to the higher-order function
    arr,        \* first array argument
    arr2,       \* second array argument
    num,        \* numeric (template or value) argument
    targs,      \* the element types the call's templates are deduced to
    ret,        \* value returned by the first call
    ret2,       \* value returned by the second call
    range_v,    \* range(): loop variable v
    range_idx,  \* range(): loop variable idx
    range_temp, \* range(): the local array temp
    range_stray,\* range(): stores made outside temp, as <<idx, v>>
    mem,        \* storage the first realization keeps between calls
    mem2,       \* storage the second realization keeps between calls
    trace,      \* what the test bench has fed and recorded so far
    status      \* exit status of the test program, None while it runs

vars == <<pc, fn, arr, arr2, num, targs, ret, ret2,
          range_v, range_idx, range_temp, range_stray, mem, mem2, trace,
          status>>

callVars == <<fn, arr, arr2, num, targs>>
rangeVars == <<range_v, range_idx, range_temp, range_stray>>
exVars == <<mem, mem2, trace, status>>

(***************************************************************************)
(* Bounds of the model.                                                    *)
(***************************************************************************)
MaxLen == 3       \* longest input array
MaxVal == 2       \* array elements are drawn from 0..MaxVal
MaxN == 70        \* largest argument of log2 / clog2
MaxZipLen == 2    \* longest input array of zip, unzip and zipWith
MaxStop == 6      \* largest STOP of range
MaxStep == 3      \* largest STEP of range
MaxDcLen == 8     \* divconq: every array of bits up to this length
MaxDcN == 33      \* divconq: one array of every length up to this one

Vals == 0..MaxVal
None == "none"
Undef == "undef"

(***************************************************************************)
(* Arrays.                                                                 *)
(***************************************************************************)
size(a) == Cardinality(DOMAIN a)

Uninit(n) == [i \in 0..(n-1) |-> Undef]

ArraysOf(S, n) == [0..(n-1) -> S]

ArraysUpTo(S, n) == UNION {ArraysOf(S, k) : k \in 0..n}

RECURSIVE Pow2(_)
Pow2(k) == IF k = 0 THEN 1 ELSE 2 * Pow2(k-1)

(***************************************************************************)
(* arrayops.hpp: compile-time logarithms.                                  *)
(***************************************************************************)
RECURSIVE log2(_)
log2(n) == IF n <= 2 THEN 1 ELSE 1 + log2(n \div 2)

\* a slip in clog2: >= where the source compares with >
clog2_ge(n) == log2(n) + (IF n >= Pow2(log2(n)) THEN 1 ELSE 0)

\* 1 << log2(n) is an int; it is exact while log2(n) <= 30, which MaxN keeps
clog2(n) == log2(n) + (IF n > Pow2(log2(n)) THEN 1 ELSE 0)

RangeIdle ==
    /\ range_v = 0
    /\ range_idx = 0
    /\ range_temp = Uninit(0)
    /\ range_stray = {}

ExIdle ==
    /\ mem = None
    /\ mem2 = None
    /\ trace = None
    /\ status = None

(***************************************************************************)
(* Callables.  A callable is named by a string and applied by Apply1 /     *)
(* Apply2.  "tag" and "node" build the term of the application itself, so  *)
(* that two results are equal only if the same applications were made on   *)
(* the same operands in the same order.                                    *)
(***************************************************************************)
UnaryFns == {"negate", "truncate", "tag"}

RECURSIVE Apply1(_, _)

BinaryFns == {"minus", "plus", "node"}

RECURSIVE Apply2(_, _, _)

(***************************************************************************)
(* arrayops.hpp: array primitives.                                         *)
(***************************************************************************)
RECURSIVE prep_loop(_, _, _)
prep_loop(res, In, idx) ==
    IF idx < size(In)
    THEN prep_loop([res EXCEPT ![idx+1] = In[idx]], In, idx + 1)
    ELSE res

\* a slip in prepend: the value goes to the last index, as in append
prepend_at_end(V, In) ==
    [idx \in 0..size(In) |-> IF idx = size(In) THEN V ELSE In[idx]]

prepend(V, In) == prep_loop([Uninit(size(In) + 1) EXCEPT ![0] = V], In, 0)

RECURSIVE append_loop(_, _, _)
append_loop(res, In, idx) ==
    IF idx < size(In)
    THEN append_loop([res EXCEPT ![idx] = In[idx]], In, idx + 1)
    ELSE res

append(In, V) ==
    [append_loop(Uninit(size(In) + 1), In, 0) EXCEPT ![size(In)] = V]

RECURSIVE concatenate_left_loop(_, _, _)
concatenate_left_loop(res, L, idx) ==
    IF idx < size(L)
    THEN concatenate_left_loop([res EXCEPT ![idx] = L[idx]], L, idx + 1)
    ELSE res

RECURSIVE concatenate_right_loop(_, _, _, _)
concatenate_right_loop(res, R, ridx, idx) ==
    IF idx < size(R)
    THEN concatenate_right_loop([res EXCEPT ![ridx] = R[idx]], R,
                                ridx + 1, idx + 1)
    ELSE res

concatenate(L, R) ==
    concatenate_right_loop(
        concatenate_left_loop(Uninit(size(L) + size(R)), L, 0),
        R, size(L), 0)

RECURSIVE split_left_loop(_, _, _)
split_left_loop(l, In, idx) ==
    IF idx < size(l)
    THEN split_left_loop([l EXCEPT ![idx] = In[idx]], In, idx + 1)
    ELSE l

RECURSIVE split_right_loop(_, _, _, _)
split_right_loop(r, In, ridx, idx) ==
    IF idx < size(r)
    THEN split_right_loop([r EXCEPT ![idx] = In[ridx]], In, ridx + 1, idx + 1)
    ELSE r

\* a slip in split: the right loop reads In from index 0
split_right_from_zero(IDX, In) ==
    LET llen == IF IDX > size(In) THEN size(In) ELSE IDX
        rlen == IF IDX > size(In) THEN 0 ELSE size(In) - IDX
    IN  [first |-> split_left_loop(Uninit(llen), In, 0),
         second |-> split_right_loop(Uninit(rlen), In, 0, 0)]

split(IDX, In) ==
    LET llen == IF IDX > size(In) THEN size(In) ELSE IDX
        rlen == IF IDX > size(In) THEN 0 ELSE size(In) - IDX
    IN  [first |-> split_left_loop(Uninit(llen), In, 0),
         second |-> split_right_loop(Uninit(rlen), In, llen, 0)]

head(t) == t[0]

RECURSIVE tail_loop(_, _, _)
tail_loop(res, In, idx) ==
    IF idx < size(In) - 1
    THEN tail_loop([res EXCEPT ![idx] = In[idx+1]], In, idx + 1)
    ELSE res

\* only arrays of LEN >= 1 are passed: std::array<T, LEN-1> needs LEN >= 1
tail(In) == tail_loop(Uninit(size(In) - 1), In, 0)

(***************************************************************************)
(* map.hpp: the recursive map and the loop map.                            *)
(***************************************************************************)
RECURSIVE MapHelper(_, _)
MapHelper(F, In) ==
    IF size(In) = 0 THEN Uninit(0)
    ELSE prepend(Apply1(F, In[0]), MapHelper(F, tail(In)))

map(F, In) == MapHelper(F, In)

RECURSIVE loop_map_for(_, _, _, _)
loop_map_for(temp, F, In, i) ==
    IF i < size(In)
    THEN loop_map_for([temp EXCEPT ![i] = Apply1(F, In[i])], F, In, i + 1)
    ELSE temp

\* a slip in the loop map: every element is computed from In[0]
loop_map_first(F, In) == [i \in DOMAIN In |-> Apply1(F, In[0])]

loop_map(F, In) == loop_map_for(Uninit(size(In)), F, In, 0)

(***************************************************************************)
(* Driver of map: map(fn, arr), then loop::map(fn, arr).                   *)
(***************************************************************************)
InitMap ==
    /\ pc = "start"
    /\ fn \in UnaryFns
    /\ arr \in ArraysUpTo(Vals, MaxLen)
    /\ arr2 = Uninit(0)
    /\ num = 0
    /\ targs = None
    /\ ret = None
    /\ ret2 = None
    /\ RangeIdle
    /\ ExIdle

MapCall ==
    /\ pc = "start"
    /\ ret' = map(fn, arr)
    /\ pc' = "map"
    /\ UNCHANGED <<callVars, ret2, rangeVars, exVars>>

LoopMapCall ==
    /\ pc = "map"
    /\ ret2' = loop_map(fn, arr)
    /\ pc' = "loop_map"
    /\ UNCHANGED <<callVars, ret, rangeVars, exVars>>

NextMap == MapCall \/ LoopMapCall

SpecMap == InitMap /\ [][NextMap]_vars

\* C1: the recursive map and the loop map return the same array, of the
\* input's length, whose element i is F(IN[i]).
C1_MapFormsAgree ==
    pc = "loop_map" =>
        /\ ret = ret2
        /\ DOMAIN ret = DOMAIN arr
        /\ DOMAIN ret2 = DOMAIN arr
        /\ \A i \in DOMAIN arr : ret[i] = Apply1(fn, arr[i])
        /\ \A i \in DOMAIN arr : ret2[i] = Apply1(fn, arr[i])

\* both forms have mapped a full-length array with distinct elements
C1_Witness ==
    /\ pc = "loop_map"
    /\ size(arr) = MaxLen
    /\ arr[0] # arr[1]
    /\ fn = "negate"
    /\ ret2[1] = 0 - arr[1]

(***************************************************************************)
(* Driver of the logarithm helpers: log2(num), then clog2(num).            *)
(***************************************************************************)
InitLog ==
    /\ pc = "start"
    /\ num \in 0..MaxN
    /\ targs = None
    /\ fn = None
    /\ arr = Uninit(0)
    /\ arr2 = Uninit(0)
    /\ ret = None
    /\ ret2 = None
    /\ RangeIdle
    /\ ExIdle

Log2Call ==
    /\ pc = "start"
    /\ ret' = log2(num)
    /\ pc' = "log2"
    /\ UNCHANGED <<callVars, ret2, rangeVars, exVars>>

Clog2Call ==
    /\ pc = "log2"
    /\ ret2' = clog2(num)
    /\ pc' = "clog2"
    /\ UNCHANGED <<callVars, ret, rangeVars, exVars>>

NextLog == Log2Call \/ Clog2Call

SpecLog == InitLog /\ [][NextLog]_vars

(***************************************************************************)
(* Reference values of the logarithm claims.                               *)
(***************************************************************************)
RECURSIVE IsPow2(_)
IsPow2(n) == n = 1 \/ (n > 1 /\ n % 2 = 0 /\ IsPow2(n \div 2))

FloorLog2(n) == CHOOSE k \in 0..n : Pow2(k) <= n /\ n < Pow2(k+1)

CeilLog2(n) == CHOOSE k \in 0..n : Pow2(k) >= n /\ \A j \in 0..(k-1) : Pow2(j) < n

\* C7: hops::log2(n) is 1 for n <= 2 and the truncated base-2 logarithm
\* of n for every n > 2.
C7_Log2IsFloor ==
    pc \in {"log2", "clog2"} =>
        ret = (IF num <= 2 THEN 1 ELSE FloorLog2(num))

Types == {"int", "char"}

RECURSIVE XipHelper_zip(_, _)
XipHelper_zip(L, R) ==
    IF size(L) = 0 THEN Uninit(0)
    ELSE prepend([first |-> L[0], second |-> R[0]],
                 XipHelper_zip(tail(L), tail(R)))

RECURSIVE XipHelper_unzip(_)
XipHelper_unzip(In) ==
    IF size(In) = 0 THEN [first |-> Uninit(0), second |-> Uninit(0)]
    ELSE LET t == XipHelper_unzip(tail(In))
         IN  [first |-> prepend(In[0].first, t.first),
              second |-> prepend(In[0].second, t.second)]

RECURSIVE XipHelper_zipWith(_, _, _)
XipHelper_zipWith(F, A, B) ==
    IF size(A) = 0 THEN Uninit(0)
    ELSE prepend(Apply2(F, A[0], B[0]),
                 XipHelper_zipWith(F, tail(A), tail(B)))

\* a slip in zip: the pair is built as {R[0], L[0]}
zip_swapped(L, R) ==
    [i \in DOMAIN L |-> [first |-> R[i], second |-> L[i]]]

zip(L, R) == XipHelper_zip(L, R)

zipWith(F, A, B) == XipHelper_zipWith(F, A, B)

unzip(In) == XipHelper_unzip(In)

RECURSIVE unzip_loop(_, _, _, _)
unzip_loop(left, right, In, i) ==
    IF i < size(In)
    THEN unzip_loop([left EXCEPT ![i] = In[i].first],
                    [right EXCEPT ![i] = In[i].second], In, i + 1)
    ELSE [first |-> left, second |-> right]

\* left and right are both declared std::array<TL, LEN>, and the function
\* returns {left, right} as std::pair<std::array<TL, LEN>, std::array<TR, LEN>>:
\* no std::array<TR, LEN> can be made from a std::array<TL, LEN> of another
\* element type, so the body is well-formed only for TL = TR
loop_unzip_compiles(TL, TR) == TL = TR

loop_unzip(In) == unzip_loop(Uninit(size(In)), Uninit(size(In)), In, 0)

RECURSIVE zip_loop(_, _, _, _)
zip_loop(temp, L, R, i) ==
    IF i < size(L)
    THEN zip_loop([temp EXCEPT ![i] = [first |-> L[i], second |-> R[i]]],
                  L, R, i + 1)
    ELSE temp

loop_zip(L, R) == zip_loop(Uninit(size(L)), L, R, 0)

RECURSIVE zipWith_loop(_, _, _, _, _)
zipWith_loop(temp, F, A, B, i) ==
    IF i < size(A)
    THEN zipWith_loop([temp EXCEPT ![i] = Apply2(F, A[i], B[i])],
                      F, A, B, i + 1)
    ELSE temp

loop_zipWith(F, A, B) == zipWith_loop(Uninit(size(A)), F, A, B, 0)

(***************************************************************************)
(* Driver of zip.hpp, one run per test:                                    *)
(*   zip_test     zip(L, R), then loop::zip(L, R) or unzip of zip's result *)
(*   unzip_test   unzip(P), then loop::unzip(P) or zip of unzip's result   *)
(*   zipWith_test zipWith(F, A, B), loop::zipWith(F, A, B)                 *)
(* A call that does not compile leaves the run at "<call>_rejected".       *)
(***************************************************************************)
PairsOf(n) == ArraysOf([first : Vals, second : Vals], n)

InitZip ==
    /\ num = 0
    /\ ret = None
    /\ ret2 = None
    /\ RangeIdle
    /\ ExIdle
    /\ \/ /\ pc = "zip_test"
          /\ fn = None
          /\ targs \in [TL : Types, TR : Types]
          /\ \E n \in 0..MaxZipLen :
                arr \in ArraysOf(Vals, n) /\ arr2 \in ArraysOf(Vals, n)
       \/ /\ pc = "unzip_test"
          /\ fn = None
          /\ targs \in [TL : Types, TR : Types]
          /\ \E n \in 0..MaxZipLen : arr \in PairsOf(n)
          /\ arr2 = Uninit(0)
       \/ /\ pc = "zipWith_test"
          /\ fn \in BinaryFns
          /\ targs = None
          /\ \E n \in 0..MaxZipLen :
                arr \in ArraysOf(Vals, n) /\ arr2 \in ArraysOf(Vals, n)

ZipCall ==
    /\ pc = "zip_test"
    /\ ret' = zip(arr, arr2)
    /\ pc' = "zip"
    /\ UNCHANGED <<callVars, ret2, rangeVars, exVars>>

LoopZipCall ==
    /\ pc = "zip"
    /\ ret2' = loop_zip(arr, arr2)
    /\ pc' = "loop_zip"
    /\ UNCHANGED <<callVars, ret, rangeVars, exVars>>

UnzipOfZipCall ==
    /\ pc = "zip"
    /\ ret' = unzip(ret)
    /\ pc' = "unzip_of_zip"
    /\ UNCHANGED <<callVars, ret2, rangeVars, exVars>>

UnzipCall ==
    /\ pc = "unzip_test"
    /\ ret' = unzip(arr)
    /\ pc' = "unzip"
    /\ UNCHANGED <<callVars, ret2, rangeVars, exVars>>

LoopUnzipCall ==
    /\ pc = "unzip"
    /\ IF loop_unzip_compiles(targs.TL, targs.TR)
       THEN ret2' = loop_unzip(arr) /\ pc' = "loop_unzip"
       ELSE ret2' = ret2 /\ pc' = "loop_unzip_rejected"
    /\ UNCHANGED <<callVars, ret, rangeVars, exVars>>

ZipOfUnzipCall ==
    /\ pc = "unzip"
    /\ ret' = zip(ret.first, ret.second)
    /\ pc' = "zip_of_unzip"
    /\ UNCHANGED <<callVars, ret2, rangeVars, exVars>>

ZipWithCall ==
    /\ pc = "zipWith_test"
    /\ ret' = zipWith(fn, arr, arr2)
    /\ pc' = "zipWith"
    /\ UNCHANGED <<callVars, ret2, rangeVars, exVars>>

LoopZipWithCall ==
    /\ pc = "zipWith"
    /\ ret2' = loop_zipWith(fn, arr, arr2)
    /\ pc' = "loop_zipWith"
    /\ UNCHANGED <<callVars, ret, rangeVars, exVars>>

NextZip ==
    \/ ZipCall
    \/ LoopZipCall
    \/ UnzipOfZipCall
    \/ UnzipCall
    \/ LoopUnzipCall
    \/ ZipOfUnzipCall
    \/ ZipWithCall
    \/ LoopZipWithCall

SpecZip == InitZip /\ [][NextZip]_vars

\* the results the two forms of a zip.hpp call have to return
ZipExpected(L, R) == [i \in DOMAIN L |-> [first |-> L[i], second |-> R[i]]]

ZipWithExpected(F, A, B) == [i \in DOMAIN A |-> Apply2(F, A[i], B[i])]

UnzipExpected(P) ==
    [first |-> [i \in DOMAIN P |-> P[i].first],
     second |-> [i \in DOMAIN P |-> P[i].second]]

\* C2: for all equal-length input arrays the recursive and the loop forms
\* of zip, unzip and zipWith both return, and return the same result:
\* zip(L,R)[i] = (L[i], R[i]), zipWith(F,A,B)[i] = F(A[i], B[i]) and
\* unzip(P) = (the array of P[i].first, the array of P[i].second).
C2_ZipFormsAgree ==
    /\ pc = "loop_zip" =>
          ret = ret2 /\ ret = ZipExpected(arr, arr2)
    /\ pc = "loop_zipWith" =>
          ret = ret2 /\ ret = ZipWithExpected(fn, arr, arr2)
    /\ pc = "loop_unzip" =>
          ret = ret2 /\ ret = UnzipExpected(arr)
    /\ pc # "loop_unzip_rejected"

\* what holds of the two forms wherever the loop form compiles
ZipFormsAgreeWhereCompiled ==
    /\ pc = "loop_zip" =>
          ret = ret2 /\ ret = ZipExpected(arr, arr2)
    /\ pc = "loop_zipWith" =>
          ret = ret2 /\ ret = ZipWithExpected(fn, arr, arr2)
    /\ pc = "loop_unzip" =>
          ret = ret2 /\ ret = UnzipExpected(arr)
    /\ pc = "loop_unzip_rejected" => targs.TL # targs.TR

\* C3: zip and unzip are mutually inverse: zipping the two arrays of
\* unzip(P) gives back P, and unzip(zip(L, R)) is the pair (L, R).
C3_ZipUnzipInverse ==
    /\ pc = "zip_of_unzip" => ret = arr
    /\ pc = "unzip_of_zip" => ret = [first |-> arr, second |-> arr2]

\* both round trips have been made on full-length arrays whose two
\* components differ
C3_WitnessZipOfUnzip ==
    /\ pc = "zip_of_unzip"
    /\ size(arr) = MaxZipLen
    /\ arr[0].first # arr[0].second
    /\ arr[0] # arr[1]
    /\ ret = arr

C3_WitnessUnzipOfZip ==
    /\ pc = "unzip_of_zip"
    /\ size(arr) = MaxZipLen
    /\ arr # arr2
    /\ arr[0] # arr[1]
    /\ ret.first = arr

(***************************************************************************)
(* reduce.hpp: left fold and right fold (ReduceHelper).                    *)
(***************************************************************************)
RECURSIVE ReduceHelper_lreduce(_, _, _)
ReduceHelper_lreduce(F, INIT, In) ==
    IF size(In) = 0 THEN INIT
    ELSE ReduceHelper_lreduce(F, Apply2(F, INIT, head(In)), tail(In))

\* a slip in rreduce: the element is passed as the second argument
RECURSIVE ReduceHelper_rreduce_flipped(_, _, _)
ReduceHelper_rreduce_flipped(F, In, INIT) ==
    IF size(In) = 0 THEN INIT
    ELSE Apply2(F, ReduceHelper_rreduce_flipped(F, tail(In), INIT), head(In))

RECURSIVE ReduceHelper_rreduce(_, _, _)
ReduceHelper_rreduce(F, In, INIT) ==
    IF size(In) = 0 THEN INIT
    ELSE Apply2(F, head(In), ReduceHelper_rreduce(F, tail(In), INIT))

lreduce(F, INIT, In) == ReduceHelper_lreduce(F, INIT, In)

rreduce(F, In, INIT) == ReduceHelper_rreduce(F, In, INIT)

(***************************************************************************)
(* Driver of reduce: lreduce(fn, num, arr), then rreduce(fn, arr, num).    *)
(***************************************************************************)
InitReduce ==
    /\ pc = "start"
    /\ fn \in BinaryFns
    /\ arr \in ArraysUpTo(Vals, MaxLen)
    /\ arr2 = Uninit(0)
    /\ num \in Vals
    /\ targs = None
    /\ ret = None
    /\ ret2 = None
    /\ RangeIdle
    /\ ExIdle

LreduceCall ==
    /\ pc = "start"
    /\ ret' = lreduce(fn, num, arr)
    /\ pc' = "lreduce"
    /\ UNCHANGED <<callVars, ret2, rangeVars, exVars>>

RreduceCall ==
    /\ pc = "lreduce"
    /\ ret2' = rreduce(fn, arr, num)
    /\ pc' = "rreduce"
    /\ UNCHANGED <<callVars, ret, rangeVars, exVars>>

NextReduce == LreduceCall \/ RreduceCall

SpecReduce == InitReduce /\ [][NextReduce]_vars

\* F(...F(F(init, A[0]), A[1])..., A[n-1]), built up index by index
RECURSIVE LeftNested(_, _, _, _)
LeftNested(F, init, A, n) ==
    IF n = 0 THEN init
    ELSE Apply2(F, LeftNested(F, init, A, n - 1), A[n-1])

\* F(A[i], F(A[i+1], ...F(A[N-1], init)...))
RECURSIVE RightNested(_, _, _, _)
RightNested(F, A, init, i) ==
    IF i = size(A) THEN init
    ELSE Apply2(F, A[i], RightNested(F, A, init, i + 1))

\* C4: lreduce(F, init, A) = F(...F(F(init, A[0]), A[1])..., A[N-1]) and
\* rreduce(F, A, init) = F(A[0], F(A[1], ...F(A[N-1], init)...)), also for
\* a non-commutative, non-associative F; both return init for N = 0.
C4_ReduceOrder ==
    pc = "rreduce" =>
        /\ ret = LeftNested(fn, num, arr, size(arr))
        /\ ret2 = RightNested(fn, arr, num, 0)
        /\ size(arr) = 0 => ret = num /\ ret2 = num
        /\ size(arr) = 2 =>
              /\ ret = Apply2(fn, Apply2(fn, num, arr[0]), arr[1])
              /\ ret2 = Apply2(fn, arr[0], Apply2(fn, arr[1], num))

\* both folds of subtraction over a full-length array, with different results
C4_Witness ==
    /\ pc = "rreduce"
    /\ fn = "minus"
    /\ size(arr) = 3
    /\ ret # ret2
    /\ ret = num - arr[0] - arr[1] - arr[2]

(***************************************************************************)
(* divconq.hpp: the divide-and-conquer scaffold.  Its callable takes two   *)
(* arrays.                                                                 *)
(***************************************************************************)
ArrayFns == {"concatenate", "sum", "node"}

RECURSIVE ApplyArr(_, _, _)

\* F applied to what it returned for the two halves: the overload of F that
\* C++ selects there need not be the one taking two std::array<T, 1>
RECURSIVE ApplyRes(_, _, _)

\* a slip in DivconqHelper: the two halves are combined in the other order
RECURSIVE DivconqHelper_swapped(_, _, _)
DivconqHelper_swapped(LEV, F, In) ==
    IF LEV = 1
    THEN LET p == split(1, In)
         IN  ApplyArr(F, p.second, p.first)
    ELSE LET p == split(Pow2(LEV - 1), In)
         IN  ApplyRes(F, DivconqHelper_swapped(LEV - 1, F, p.second),
                         DivconqHelper_swapped(LEV - 1, F, p.first))

RECURSIVE DivconqHelper(_, _, _)
DivconqHelper(LEV, F, In) ==
    IF LEV = 1
    THEN LET p == split(1, In)
         IN  ApplyArr(F, p.first, p.second)
    ELSE LET p == split(Pow2(LEV - 1), In)
         IN  ApplyRes(F, DivconqHelper(LEV - 1, F, p.first),
                         DivconqHelper(LEV - 1, F, p.second))

\* a slip in the helper's parameter: any array that fits is taken
Divconq_compiles_fits(LEN) == LEN <= Pow2(clog2(LEN))

\* DivconqHelper<clog2(LEN)>::operator() takes a std::array<T, (1<<LEV)>:
\* the call is well-formed only if LEN is that length
Divconq_compiles(LEN) == LEN = Pow2(clog2(LEN))

divconq(F, In) == DivconqHelper(clog2(size(In)), F, In)

(***************************************************************************)
(* Driver of divconq: divconq(fn, arr), then divconq on each half of arr.  *)
(***************************************************************************)
Bits == 0..1

Iota(n) == [i \in 0..(n-1) |-> i % 2]

FirstHalf(A) == [i \in 0..((size(A) \div 2) - 1) |-> A[i]]

SecondHalf(A) == [i \in 0..((size(A) \div 2) - 1) |-> A[(size(A) \div 2) + i]]

InitDivconq ==
    /\ pc = "start"
    /\ fn \in ArrayFns
    /\ arr \in ArraysUpTo(Bits, MaxDcLen)
                 \cup {Iota(n) : n \in (MaxDcLen + 1)..MaxDcN}
    /\ arr2 = Uninit(0)
    /\ num = 0
    /\ targs = None
    /\ ret = None
    /\ ret2 = None
    /\ RangeIdle
    /\ ExIdle

DivconqCall ==
    /\ pc = "start"
    /\ IF Divconq_compiles(size(arr))
       THEN ret' = divconq(fn, arr) /\ pc' = "divconq"
       ELSE ret' = ret /\ pc' = "divconq_rejected"
    /\ UNCHANGED <<callVars, ret2, rangeVars, exVars>>

DivconqHalvesCall ==
    /\ pc = "divconq"
    /\ size(arr) >= 4
    /\ ret2' = [first |-> divconq(fn, FirstHalf(arr)),
                second |-> divconq(fn, SecondHalf(arr))]
    /\ pc' = "halves"
    /\ UNCHANGED <<callVars, ret, rangeVars, exVars>>

NextDivconq == DivconqCall \/ DivconqHalvesCall

SpecDivconq == InitDivconq /\ [][NextDivconq]_vars

\* C5: for an input A of length 2^k, k >= 1, divconq(F, A) is
\* F(divconq(F, first half), divconq(F, second half)); for length 2 it is
\* F([A[0]], [A[1]]); and divconq(concatenate, A) = A.
C5_DivconqRecurrence ==
    /\ pc = "halves" => ret = ApplyArr(fn, ret2.first, ret2.second)
    /\ pc = "divconq" /\ size(arr) = 2 =>
          ret = ApplyArr(fn, [i \in {0} |-> arr[0]], [i \in {0} |-> arr[1]])
    /\ pc \in {"divconq", "halves"} /\ fn = "concatenate" => ret = arr

\* an array of 8 with different halves, divided and combined as a tree
C5_Witness ==
    /\ pc = "halves"
    /\ size(arr) = 8
    /\ fn = "node"
    /\ FirstHalf(arr) # SecondHalf(arr)
    /\ ret2.first # ret2.second
    /\ ret = <<"F", ret2.first, ret2.second>>

\* C6 as claimed: for every N >= 1 divconq accepts the length N exactly
\* when N is a power of two.
C6_AcceptsPowersOfTwoFromOne ==
    pc \in {"divconq", "divconq_rejected"} /\ size(arr) >= 1 =>
        (pc = "divconq" <=> IsPow2(size(arr)))

\* C6 as amended: for every N >= 2 divconq accepts the length N exactly
\* when N is a power of two; the length 1 is rejected, since clog2(1) = 1
\* selects the helper of the length 2.
C6_AcceptsPowersOfTwoFromTwo ==
    pc \in {"divconq", "divconq_rejected"} =>
        /\ size(arr) >= 2 => (pc = "divconq" <=> IsPow2(size(arr)))
        /\ size(arr) >= 2 =>
              (size(arr) = Pow2(clog2(size(arr))) <=> IsPow2(size(arr)))
        /\ size(arr) = 1 => pc = "divconq_rejected"

\* a length between two powers of two has been rejected
C6_Witness ==
    /\ pc = "divconq_rejected"
    /\ size(arr) = 6
    /\ clog2(size(arr)) = 3

(***************************************************************************)
(* arrayops.hpp: range<STOP, START, STEP>(), one action per loop           *)
(* iteration.  temp has (STOP-START)/STEP elements; a store temp[idx] = v  *)
(* with idx outside temp is undefined behaviour: the store is recorded in  *)
(* range_stray, and the run either goes on or ends there.                  *)
(***************************************************************************)
InitRange ==
    /\ pc = "start"
    /\ fn = None
    /\ arr = Uninit(0)
    /\ arr2 = Uninit(0)
    /\ num = 0
    /\ targs \in {t \in [STOP : 0..MaxStop, START : 0..MaxStop, STEP : 1..MaxStep] :
                     t.STOP >= t.START}
    /\ ret = None
    /\ ret2 = None
    /\ RangeIdle
    /\ ExIdle

RangeCall ==
    /\ pc = "start"
    /\ range_temp' = Uninit((targs.STOP - targs.START) \div targs.STEP)
    /\ range_v' = targs.START
    /\ range_idx' = 0
    /\ pc' = "range_loop"
    /\ UNCHANGED <<callVars, ret, ret2, range_stray, exVars>>

RangeLoopStore ==
    /\ pc = "range_loop"
    /\ range_v < targs.STOP
    /\ range_idx < size(range_temp)
    /\ range_temp' = [range_temp EXCEPT ![range_idx] = range_v]
    /\ range_v' = range_v + targs.STEP
    /\ range_idx' = range_idx + 1
    /\ UNCHANGED <<pc, callVars, ret, ret2, range_stray, exVars>>

RangeLoopStrayStore ==
    /\ pc = "range_loop"
    /\ range_v < targs.STOP
    /\ range_idx >= size(range_temp)
    /\ range_stray' = range_stray \cup {<<range_idx, range_v>>}
    /\ range_v' = range_v + targs.STEP
    /\ range_idx' = range_idx + 1
    /\ pc' \in {"range_loop", "crashed"}
    /\ UNCHANGED <<callVars, ret, ret2, range_temp, exVars>>

RangeReturn ==
    /\ pc = "range_loop"
    /\ ~(range_v < targs.STOP)
    /\ ret' = range_temp
    /\ pc' = "returned"
    /\ UNCHANGED <<callVars, ret2, rangeVars, exVars>>

NextRange ==
    \/ RangeCall
    \/ RangeLoopStore
    \/ RangeLoopStrayStore
    \/ RangeReturn

SpecRange == InitRange /\ [][NextRange]_vars

\* C9: for all STOP >= START and STEP >= 1 range returns an array of
\* length (STOP-START)/STEP whose element i is START + i*STEP, and its
\* loop stores at the indices of that array and at no other index, also
\* when STEP does not divide STOP-START.
C9_RangeFillsExactly ==
    /\ range_stray = {}
    /\ pc # "crashed"
    /\ pc = "returned" =>
          /\ size(ret) = (targs.STOP - targs.START) \div targs.STEP
          /\ \A i \in DOMAIN ret : ret[i] = targs.START + i * targs.STEP

\* what holds of range whenever STEP divides STOP-START
RangeExactWhenStepDivides ==
    (targs.STOP - targs.START) % targs.STEP = 0 =>
        /\ range_stray = {}
        /\ pc # "crashed"
        /\ pc = "returned" =>
              /\ size(ret) = (targs.STOP - targs.START) \div targs.STEP
              /\ \A i \in DOMAIN ret : ret[i] = targs.START + i * targs.STEP

\* the returned array itself is as claimed whenever range returns
RangeReturnedArray ==
    pc = "returned" =>
        /\ size(ret) = (targs.STOP - targs.START) \div targs.STEP
        /\ \A i \in DOMAIN ret : ret[i] = targs.START + i * targs.STEP

(***************************************************************************)
(* Driver of split and concatenate: split<num>(arr), then concatenate of   *)
(* the two parts.                                                          *)
(***************************************************************************)
InitSplit ==
    /\ pc = "start"
    /\ fn = None
    /\ arr \in ArraysUpTo(Vals, MaxLen)
    /\ arr2 = Uninit(0)
    /\ num \in 0..(MaxLen + 2)
    /\ targs = None
    /\ ret = None
    /\ ret2 = None
    /\ RangeIdle
    /\ ExIdle

SplitCall ==
    /\ pc = "start"
    /\ ret' = split(num, arr)
    /\ pc' = "split"
    /\ UNCHANGED <<callVars, ret2, rangeVars, exVars>>

ConcatenateCall ==
    /\ pc = "split"
    /\ ret2' = concatenate(ret.first, ret.second)
    /\ pc' = "concatenate"
    /\ UNCHANGED <<callVars, ret, rangeVars, exVars>>

NextSplit == SplitCall \/ ConcatenateCall

SpecSplit == InitSplit /\ [][NextSplit]_vars

Min(a, b) == IF a < b THEN a ELSE b

Max(a, b) == IF a > b THEN a ELSE b

\* C10: split<k>(A) returns arrays of lengths min(k, N) and max(N-k, 0)
\* holding A's indices [0, k) and [k, N) in order, for every k >= 0
\* (k = 0, k = N and k > N included), and concatenating them gives A.
C10_SplitConcatenate ==
    /\ pc \in {"split", "concatenate"} =>
          /\ DOMAIN ret.first = 0..(Min(num, size(arr)) - 1)
          /\ DOMAIN ret.second = 0..(Max(size(arr) - num, 0) - 1)
          /\ \A i \in DOMAIN ret.first : ret.first[i] = arr[i]
          /\ \A i \in DOMAIN ret.second : ret.second[i] = arr[num + i]
    /\ pc = "concatenate" => ret2 = arr

\* an array split strictly inside, with different elements on both sides
C10_Witness ==
    /\ pc = "concatenate"
    /\ size(arr) = 3
    /\ num = 1
    /\ arr[0] # arr[1]
    /\ arr[1] # arr[2]
    /\ size(ret.second) = 2
    /\ ret2 = arr

\* a split index beyond the array's length
C10_WitnessBeyond ==
    /\ pc = "concatenate"
    /\ size(arr) = 2
    /\ num > size(arr)
    /\ ret.first = arr
    /\ size(ret.second) = 0

(***************************************************************************)
(* arrayops.hpp: reverse.                                                  *)
(***************************************************************************)
RECURSIVE reverse_loop(_, _, _)
reverse_loop(res, In, idx) ==
    IF idx < size(In)
    THEN reverse_loop([res EXCEPT ![idx] = In[size(In) - (idx + 1)]],
                      In, idx + 1)
    ELSE res

\* a slip in reverse: the loop copies In[idx]
reverse_copy(In) == [idx \in DOMAIN In |-> In[idx]]

reverse(In) == reverse_loop(Uninit(size(In)), In, 0)

(***************************************************************************)
(* Driver of reverse: reverse(arr), then reverse of the result.            *)
(***************************************************************************)
InitReverse ==
    /\ pc = "start"
    /\ arr \in ArraysUpTo(Vals, MaxLen)
    /\ fn = None
    /\ arr2 = Uninit(0)
    /\ num = 0
    /\ targs = None
    /\ ret = None
    /\ ret2 = None
    /\ RangeIdle
    /\ ExIdle

ReverseCall ==
    /\ pc = "start"
    /\ ret' = reverse(arr)
    /\ pc' = "reverse"
    /\ UNCHANGED <<callVars, ret2, rangeVars, exVars>>

ReverseAgainCall ==
    /\ pc = "reverse"
    /\ ret2' = reverse(ret)
    /\ pc' = "reverse_reverse"
    /\ UNCHANGED <<callVars, ret, rangeVars, exVars>>

NextReverse == ReverseCall \/ ReverseAgainCall

SpecReverse == InitReverse /\ [][NextReverse]_vars

\* C11: reverse(A) has A's length and holds A[N-1-i] at every index i, and
\* reversing the result gives A back.
C11_ReverseInvolution ==
    /\ pc \in {"reverse", "reverse_reverse"} =>
          /\ DOMAIN ret = DOMAIN arr
          /\ \A i \in DOMAIN arr : ret[i] = arr[size(arr) - 1 - i]
    /\ pc = "reverse_reverse" => ret2 = arr

\* an array that is not a palindrome has been reversed twice
C11_Witness ==
    /\ pc = "reverse_reverse"
    /\ size(arr) = 3
    /\ arr[0] # arr[2]
    /\ ret[0] = arr[2]
    /\ ret2 = arr

\* the empty array has been reversed twice
C11_WitnessEmpty ==
    /\ pc = "reverse_reverse"
    /\ size(arr) = 0
    /\ size(ret) = 0

(***************************************************************************)
(* Driver of prepend: prepend(num, arr), then head and tail of the result. *)
(***************************************************************************)
InitPrepend ==
    /\ pc = "start"
    /\ arr \in ArraysUpTo(Vals, MaxLen)
    /\ num \in Vals
    /\ fn = None
    /\ arr2 = Uninit(0)
    /\ targs = None
    /\ ret = None
    /\ ret2 = None
    /\ RangeIdle
    /\ ExIdle

PrependCall ==
    /\ pc = "start"
    /\ arr2' = prepend(num, arr)
    /\ pc' = "prepend"
    /\ UNCHANGED <<fn, arr, num, targs, ret, ret2, rangeVars, exVars>>

HeadCall ==
    /\ pc = "prepend"
    /\ ret' = head(arr2)
    /\ pc' = "head"
    /\ UNCHANGED <<callVars, ret2, rangeVars, exVars>>

TailCall ==
    /\ pc = "head"
    /\ ret2' = tail(arr2)
    /\ pc' = "tail"
    /\ UNCHANGED <<callVars, ret, rangeVars, exVars>>

NextPrepend == PrependCall \/ HeadCall \/ TailCall

SpecPrepend == InitPrepend /\ [][NextPrepend]_vars

\* C12: prepend(v, A) has length N+1, its head is v and its tail is A.
C12_PrependHeadTail ==
    /\ pc \in {"prepend", "head", "tail"} => size(arr2) = size(arr) + 1
    /\ pc \in {"head", "tail"} => ret = num
    /\ pc = "tail" => ret2 = arr

\* head and tail have been taken of a prepended array whose first element
\* differs from the prepended value
C12_Witness ==
    /\ pc = "tail"
    /\ size(arr) = 2
    /\ arr[0] # num
    /\ arr[0] # arr[1]
    /\ ret = num
    /\ ret2 = arr

\* a value has been prepended to the empty array
C12_WitnessEmpty ==
    /\ pc = "tail"
    /\ size(arr) = 0
    /\ size(arr2) = 1
    /\ size(ret2) = 0

(***************************************************************************)
(* functools.hpp: flip and uncurry; arrayops.hpp: the rotations.           *)
(***************************************************************************)
flip(F, L, R) == Apply2(F, R, L)

uncurry(F, P) == Apply2(F, P.first, P.second)

\* only arrays of LEN >= 1 are passed: for LEN = 0 the index LEN-1 wraps
rrotate(In) == uncurry("flip(concatenate)", split(size(In) - 1, In))

\* a slip in lrotate: concatenate is not flipped
lrotate_unflipped(In) == uncurry("concatenate", split(1, In))

lrotate(In) == uncurry("flip(concatenate)", split(1, In))

(***************************************************************************)
(* Driver of the rotations: rrotate(arr), then lrotate(arr).               *)
(***************************************************************************)
InitRotate ==
    /\ pc = "start"
    /\ arr \in ArraysUpTo(Vals, MaxLen)
    /\ size(arr) >= 1
    /\ fn = None
    /\ arr2 = Uninit(0)
    /\ num = 0
    /\ targs = None
    /\ ret = None
    /\ ret2 = None
    /\ RangeIdle
    /\ ExIdle

RrotateCall ==
    /\ pc = "start"
    /\ ret' = rrotate(arr)
    /\ pc' = "rrotate"
    /\ UNCHANGED <<callVars, ret2, rangeVars, exVars>>

LrotateCall ==
    /\ pc = "rrotate"
    /\ ret2' = lrotate(arr)
    /\ pc' = "lrotate"
    /\ UNCHANGED <<callVars, ret, rangeVars, exVars>>

NextRotate == RrotateCall \/ LrotateCall

SpecRotate == InitRotate /\ [][NextRotate]_vars

\* C13: rrotate(A) is A[N-1] followed by A[0..N-2], the second part of the
\* split at N-1 concatenated before the first; lrotate(A) is A[1..N-1]
\* followed by A[0], the second part of the split at 1 concatenated before
\* the first.
C13_Rotations ==
    LET N == size(arr) IN
    /\ pc \in {"rrotate", "lrotate"} =>
          /\ DOMAIN ret = DOMAIN arr
          /\ ret[0] = arr[N-1]
          /\ \A i \in 1..(N-1) : ret[i] = arr[i-1]
          /\ ret = concatenate(split(N-1, arr).second, split(N-1, arr).first)
          /\ size(split(N-1, arr).first) = N - 1
    /\ pc = "lrotate" =>
          /\ DOMAIN ret2 = DOMAIN arr
          /\ ret2[N-1] = arr[0]
          /\ \A i \in 0..(N-2) : ret2[i] = arr[i+1]
          /\ ret2 = concatenate(split(1, arr).second, split(1, arr).first)
          /\ size(split(1, arr).first) = 1

\* an array of three distinct elements has been rotated both ways
C13_Witness ==
    /\ pc = "lrotate"
    /\ size(arr) = 3
    /\ arr[0] # arr[1]
    /\ arr[1] # arr[2]
    /\ arr[0] # arr[2]
    /\ ret[0] = arr[2]
    /\ ret2[2] = arr[0]

(***************************************************************************)
(* examples/smith_waterman: the cell operator sw_op and the two systolic   *)
(* combinators.  A score is a record of three chars v, e, f; a reference   *)
(* symbol sw_ref is a base b with the flag last.                           *)
(***************************************************************************)
MATCH == 2
ALPHA == 2
BETA == 1
SW_HIST == 2
READ_LENGTH == 3    \* rows of the systolic array (16 in the source)
REF_LENGTH == 4     \* symbols of the reference (32 in the source)

\* conversion of an int to char: char is 8 bits wide and signed
ToChar(x) == ((x + 128) % 256) - 128

max(a, b) == IF a < b THEN b ELSE a

Score(v, e, f) == [v |-> v, e |-> e, f |-> f]

\* hw_base is char in the build without BIT_ACCURATE: the base is returned
to_hw_base(In) == In

\* a slip in the first form of sw_op: the diagonal score is read from the
\* newest column
SmithWatermanUnit_diag0(read, ref, smatrix) ==
    LET IDX == size(smatrix) IN
    IF IDX = 1 THEN Score(0, 0, 0)
    ELSE IF ref.last
    THEN Score(ToChar(0 - IDX), ToChar(0 - IDX), ToChar(0 - IDX))
    ELSE LET sigma == IF read = ref.b THEN MATCH ELSE 0 - MATCH
             e == ToChar(max(smatrix[0][0].v - ALPHA, smatrix[0][0].e - BETA))
             f == ToChar(max(smatrix[1][0].v - ALPHA, smatrix[1][0].f - BETA))
             v == ToChar(max(ToChar(smatrix[1][0].v + sigma), max(e, f)))
         IN  Score(v, e, f)

\* sw_op(read, ref, smatrix) on a matrix of IDX rows, newest row first
SmithWatermanUnit(read, ref, smatrix) ==
    LET IDX == size(smatrix) IN
    IF IDX = 1 THEN Score(0, 0, 0)
    ELSE IF ref.last
    THEN Score(ToChar(0 - IDX), ToChar(0 - IDX), ToChar(0 - IDX))
    ELSE LET sigma == IF read = ref.b THEN MATCH ELSE 0 - MATCH
             e == ToChar(max(smatrix[0][0].v - ALPHA, smatrix[0][0].e - BETA))
             f == ToChar(max(smatrix[1][0].v - ALPHA, smatrix[1][0].f - BETA))
             v == ToChar(max(ToChar(smatrix[1][1].v + sigma), max(e, f)))
         IN  Score(v, e, f)

\* a slip in the second form of sw_op: the boundary score is -(IDX), as it
\* is in the first form, where IDX counts the rows up to the current one
SmithWatermanUnit_at_rows(IDX, read, ref, smatrix) ==
    IF IDX = 0 THEN Score(0, 0, 0)
    ELSE IF ref.last
    THEN Score(ToChar(0 - IDX), ToChar(0 - IDX), ToChar(0 - IDX))
    ELSE LET sigma == IF read = ref.b THEN MATCH ELSE 0 - MATCH
             e == ToChar(max(smatrix[IDX][0].v - ALPHA,
                             smatrix[IDX][0].e - BETA))
             f == ToChar(max(smatrix[IDX-1][0].v - ALPHA,
                             smatrix[IDX-1][0].f - BETA))
             v == ToChar(max(ToChar(smatrix[IDX-1][1].v + sigma), max(e, f)))
         IN  Score(v, e, f)

\* sw_op(IDX, read, ref, smatrix) on the whole matrix of READ_LENGTH rows
SmithWatermanUnit_at(IDX, read, ref, smatrix) ==
    IF IDX = 0 THEN Score(0, 0, 0)
    ELSE IF ref.last
    THEN Score(ToChar(0 - (IDX + 1)), ToChar(0 - (IDX + 1)),
               ToChar(0 - (IDX + 1)))
    ELSE LET sigma == IF read = ref.b THEN MATCH ELSE 0 - MATCH
             e == ToChar(max(smatrix[IDX][0].v - ALPHA,
                             smatrix[IDX][0].e - BETA))
             f == ToChar(max(smatrix[IDX-1][0].v - ALPHA,
                             smatrix[IDX-1][0].f - BETA))
             v == ToChar(max(ToChar(smatrix[IDX-1][1].v + sigma), max(e, f)))
         IN  Score(v, e, f)

RECURSIVE Apply3(_, _, _, _)
RECURSIVE Apply4(_, _, _, _, _)

triple(f, s, t) == [left |-> f, top |-> s, hist |-> t]

\* a slip in Wrapper: the row above is handed to F with its new result
\* already shifted in
Wrapper_fresh(F, past, cur) ==
    LET smatrix == prepend(cur.hist, past.second)
        n == size(past.first)
        seen == IF n = 0 THEN smatrix
                ELSE [smatrix EXCEPT
                         ![1] = [x \in DOMAIN @ |->
                                    IF x = 0 THEN past.first[n - 1]
                                    ELSE @[x - 1]]]
        result == Apply3(F, cur.left, cur.top, seen)
    IN  [first |-> append(past.first, result), second |-> smatrix]

Wrapper(F, past, cur) ==
    LET smatrix == prepend(cur.hist, past.second)
        result == Apply3(F, cur.left, cur.top, smatrix)
    IN  [first |-> append(past.first, result), second |-> smatrix]

Partial(A, B, x, y) == Apply3(A, B, x, y)

\* only arrays of LEN >= 1 are passed: for LEN = 0 the index LEN-1 wraps
rshift(V, In) == prepend(V, split(size(In) - 1, In).first)

RECURSIVE XipHelper_zipWith3(_, _, _, _)
XipHelper_zipWith3(F, A, B, C) ==
    IF size(A) = 0 THEN Uninit(0)
    ELSE prepend(Apply3(F, A[0], B[0], C[0]),
                 XipHelper_zipWith3(F, tail(A), tail(B), tail(C)))

zipWith3(F, A, B, C) == XipHelper_zipWith3(F, A, B, C)

\* the callable partial(wrapper, F)
partial_wrapper(F) == CASE F = "sw_op" -> "partial(wrapper, sw_op)"

systolic(F, left, top, smatrix) ==
    LET init == [first |-> Uninit(0), second |-> Uninit(0)]
        trips == zipWith3("triplizer", left, top, smatrix)
        newcol == lreduce(partial_wrapper(F), init, trips).first
    IN  zipWith("rshift", newcol, smatrix)

\* only matrices of W >= 1 are passed: for W = 0 the index W-1 wraps
sloop_systolic(F, left, top, smatrix) ==
    LET H == size(smatrix)
        RECURSIVE newcol_loop(_, _)
        newcol_loop(newcol, row) ==
            IF row < H
            THEN newcol_loop(
                     [newcol EXCEPT
                         ![row] = Apply4(F, row, left[row], top[row], smatrix)],
                     row + 1)
            ELSE newcol
        RECURSIVE col_loop(_, _, _)
        col_loop(newsmatrix, row, col) ==
            IF col > 0
            THEN col_loop(
                     [newsmatrix EXCEPT ![row][col] = smatrix[row][col-1]],
                     row, col - 1)
            ELSE newsmatrix
        RECURSIVE row_loop(_, _, _)
        row_loop(newsmatrix, newcol, row) ==
            IF row < H
            THEN row_loop(
                     [col_loop(newsmatrix, row, size(smatrix[row]) - 1)
                         EXCEPT ![row][0] = newcol[row]],
                     newcol, row + 1)
            ELSE newsmatrix
    IN  row_loop([row \in 0..(H-1) |-> Uninit(size(smatrix[row]))],
                 newcol_loop(Uninit(H), 0), 0)

(***************************************************************************)
(* Driver of the systolic combinators: from any history matrix, each call  *)
(* shifts one reference symbol into top and runs both realizations.        *)
(***************************************************************************)
MaxSysCalls == 2    \* calls made on each realization
MaxSeed == 2        \* initial history matrices other than the zero matrix

Bases == {"a", "c", "t", "g"}

SysRefs == [b : {"a", "c", "x"}, last : BOOLEAN]

ZeroMatrix == [y \in 0..(READ_LENGTH-1) |->
                  [x \in 0..(SW_HIST-1) |-> Score(0, 0, 0)]]

\* history matrices whose cells all differ; from seed 2 on, chars near the
\* ends of their range
SeedMatrix(k) ==
    [y \in 0..(READ_LENGTH-1) |->
        [x \in 0..(SW_HIST-1) |->
            Score(ToChar(63 * k + y + x), ToChar(0 - 64 * k - y),
                  ToChar(x - y * k))]]

InitSystolic ==
    /\ pc = "idle"
    /\ arr \in ArraysOf({"a", "c"}, READ_LENGTH)
    /\ arr2 \in ArraysOf({[b |-> "x", last |-> FALSE], [b |-> "a", last |-> TRUE]},
                         READ_LENGTH)
    /\ mem \in {ZeroMatrix} \cup {SeedMatrix(k) : k \in 1..MaxSeed}
    /\ mem2 = mem
    /\ num = 0
    /\ fn = "sw_op"
    /\ targs = None
    /\ ret = None
    /\ ret2 = None
    /\ trace = None
    /\ status = None
    /\ RangeIdle

SystolicHopCall ==
    /\ pc = "idle"
    /\ num < MaxSysCalls
    /\ \E r \in SysRefs :
          arr2' = rshift(r, arr2)
    /\ mem' = systolic(fn, map("to_hw_base", arr), arr2', mem)
    /\ pc' = "hop"
    /\ UNCHANGED <<fn, arr, num, targs, ret, ret2, rangeVars, status, mem2, trace>>

SystolicLoopCall ==
    /\ pc = "hop"
    /\ mem2' = sloop_systolic(fn, map("to_hw_base", arr), arr2, mem2)
    /\ num' = num + 1
    /\ pc' = "idle"
    /\ UNCHANGED <<fn, arr, arr2, targs, ret, ret2, rangeVars, status, mem, trace>>

NextSystolic == SystolicHopCall \/ SystolicLoopCall

SpecSystolic == InitSystolic /\ [][NextSystolic]_vars

\* C14: fed the same left array, top array and history matrix, systolic and
\* sloop::systolic return the same matrix, v, e and f of every cell, and so
\* hold the same matrix after every call.
C14_SystolicFormsAgree ==
    pc = "idle" =>
        /\ mem = mem2
        /\ \A y \in 0..(READ_LENGTH-1) : \A x \in 0..(SW_HIST-1) :
              /\ mem[y][x].v = mem2[y][x].v
              /\ mem[y][x].e = mem2[y][x].e
              /\ mem[y][x].f = mem2[y][x].f

\* both realizations have been called twice, the last time on a symbol that
\* is no boundary, and the last row holds a score computed from its
\* neighbours
C14_Witness ==
    /\ pc = "idle"
    /\ num = 2
    /\ ~arr2[READ_LENGTH-1].last
    /\ ~arr2[0].last
    /\ mem2[READ_LENGTH-1][0].v # 0
    /\ mem2[READ_LENGTH-1][0].v # mem2[READ_LENGTH-1][0].e
    /\ mem2[READ_LENGTH-1][1] # mem2[READ_LENGTH-1][0]

\* C22: in every call of systolic and of sloop::systolic, row r of the
\* returned matrix is the new result of row r followed by the first W-1
\* entries of row r of the input matrix, and the new result of row r is F
\* applied to left[r], top[r] and rows of the input matrix only.
C22_SystolicFrame ==
    [][LET left == map("to_hw_base", arr)
           shifted(new, old) ==
               [x \in 0..(SW_HIST-1) |-> IF x = 0 THEN new ELSE old[x - 1]]
           above(r, M) == [i \in 0..r |-> M[r - i]]
       IN  /\ pc = "idle" /\ pc' = "hop" =>
                \A r \in 0..(READ_LENGTH-1) :
                    mem'[r] = shifted(Apply3(fn, left[r], arr2'[r],
                                             above(r, mem)), mem[r])
           /\ pc = "hop" /\ pc' = "idle" =>
                \A r \in 0..(READ_LENGTH-1) :
                    mem2'[r] = shifted(Apply4(fn, r, left[r], arr2[r], mem2),
                                       mem2[r])]_vars

\* both realizations have been called on a matrix whose rows differ, and
\* the last row's new result differs from the entry it pushed back
C22_Witness ==
    /\ pc = "idle"
    /\ num = 1
    /\ mem[READ_LENGTH-1][1] = SeedMatrix(1)[READ_LENGTH-1][0]
    /\ mem2[READ_LENGTH-1][1] = SeedMatrix(1)[READ_LENGTH-1][0]
    /\ mem[READ_LENGTH-1][0] # mem[READ_LENGTH-1][1]
    /\ ~arr2[READ_LENGTH-1].last

\* the cell the affine-gap recurrence gives row r from the input matrix M,
\* in char arithmetic and without a floor at 0
SwRecurrence(r, read, ref, M) ==
    LET sigma == IF read = ref.b THEN MATCH ELSE 0 - MATCH
        e == ToChar(max(M[r][0].v - ALPHA, M[r][0].e - BETA))
        f == ToChar(max(M[r-1][0].v - ALPHA, M[r-1][0].f - BETA))
        v == ToChar(max(ToChar(M[r-1][1].v + sigma), max(e, f)))
    IN  Score(v, e, f)

\* the cell whose three scores are -(r+1)
SwBoundary(r) == Score(0 - (r + 1), 0 - (r + 1), 0 - (r + 1))

\* C23 as claimed: for every row r, counted from 0, the new cell of row r
\* has v = e = f = -(r+1) whenever the row's top input carries the last
\* flag, in the fold-based and in the loop-based operator, and follows the
\* recurrence when the flag is clear.
C23_BoundaryEveryRow ==
    [][LET left == map("to_hw_base", arr) IN
       /\ pc = "idle" /\ pc' = "hop" =>
            \A r \in 0..(READ_LENGTH-1) :
                /\ arr2'[r].last => mem'[r][0] = SwBoundary(r)
                /\ ~arr2'[r].last /\ r >= 1 =>
                      mem'[r][0] = SwRecurrence(r, left[r], arr2'[r], mem)
       /\ pc = "hop" /\ pc' = "idle" =>
            \A r \in 0..(READ_LENGTH-1) :
                /\ arr2[r].last => mem2'[r][0] = SwBoundary(r)
                /\ ~arr2[r].last /\ r >= 1 =>
                      mem2'[r][0] = SwRecurrence(r, left[r], arr2[r], mem2)]_vars

\* C23 as amended: the above for every row r >= 1; the new cell of row 0
\* has v = e = f = 0 whatever its top input carries.
C23_BoundaryRowsBelowFirst ==
    [][LET left == map("to_hw_base", arr) IN
       /\ pc = "idle" /\ pc' = "hop" =>
            /\ mem'[0][0] = Score(0, 0, 0)
            /\ \A r \in 1..(READ_LENGTH-1) :
                  mem'[r][0] = IF arr2'[r].last THEN SwBoundary(r)
                               ELSE SwRecurrence(r, left[r], arr2'[r], mem)
       /\ pc = "hop" /\ pc' = "idle" =>
            /\ mem2'[0][0] = Score(0, 0, 0)
            /\ \A r \in 1..(READ_LENGTH-1) :
                  mem2'[r][0] = IF arr2[r].last THEN SwBoundary(r)
                                ELSE SwRecurrence(r, left[r], arr2[r], mem2)]_vars

\* both operators have run with the last flag on rows 0 and 1 and a clear
\* flag on the last row, whose new score is negative
C23_Witness ==
    /\ pc = "idle"
    /\ num >= 1
    /\ arr2[0].last /\ mem[0][0].v = 0 /\ mem2[0][0].v = 0
    /\ arr2[1].last /\ mem[1][0].v = 0 - 2 /\ mem2[1][0].f = 0 - 2
    /\ ~arr2[READ_LENGTH-1].last
    /\ mem[READ_LENGTH-1][0].v < 0 /\ mem2[READ_LENGTH-1][0].v < 0

(***************************************************************************)
(* examples/smith_waterman/test.cpp: the reference matrix of test_sw and   *)
(* its test bench.                                                         *)
(***************************************************************************)
\* soln after the loops of test_sw over the reference symbols ref
soln_matrix(read, ref) ==
    LET H == size(read)
        REF == size(ref)
        RECURSIVE cell_loop(_, _, _, _)
        cell_loop(soln, soln_top, cyc, sr_idx) ==
            LET sr_cyc == cyc - sr_idx IN
            IF sr_idx < H /\ sr_cyc >= 0
            THEN IF sr_idx = 0
                 THEN cell_loop([soln EXCEPT ![sr_idx][cyc] = Score(0, 0, 0)],
                                soln_top, cyc, sr_idx + 1)
                 ELSE IF soln_top[sr_idx].last
                 THEN cell_loop(
                          [soln EXCEPT ![sr_idx][sr_cyc] =
                              Score(ToChar(0 - (sr_idx + 1)),
                                    ToChar(0 - (sr_idx + 1)),
                                    ToChar(0 - (sr_idx + 1)))],
                          soln_top, cyc, sr_idx + 1)
                 ELSE LET sigma ==
                              IF to_hw_base(read[sr_idx]) = soln_top[sr_idx].b
                              THEN 2 ELSE 0 - 2
                          e == ToChar(max(soln[sr_idx][sr_cyc-1].v - ALPHA,
                                          soln[sr_idx][sr_cyc-1].e - BETA))
                          f == ToChar(max(soln[sr_idx-1][sr_cyc].v - ALPHA,
                                          soln[sr_idx-1][sr_cyc].f - BETA))
                          v == ToChar(max(
                                   ToChar(soln[sr_idx-1][sr_cyc-1].v + sigma),
                                   max(e, f)))
                      IN  cell_loop([soln EXCEPT ![sr_idx][sr_cyc] = Score(v, e, f)],
                                    soln_top, cyc, sr_idx + 1)
            ELSE soln
        RECURSIVE cyc_loop(_, _, _)
        cyc_loop(soln, soln_top, cyc) ==
            IF cyc < REF
            THEN LET shifted ==
                         [k \in 0..(H-1) |->
                             IF k = 0
                             THEN [b |-> to_hw_base(ref[cyc]),
                                   last |-> ref[cyc] = "x"]
                             ELSE soln_top[k-1]]
                 IN  cyc_loop(cell_loop(soln, shifted, cyc, 0), shifted, cyc + 1)
            ELSE soln
    IN  cyc_loop([y \in 0..(H-1) |-> [x \in 0..(REF-1) |-> Score(0, 0, 0)]],
                 Uninit(H), 0)

\* read and the symbols of ref fed so far (trace) are drawn as test_sw
\* fills them: index 0 is the marker 'x', every other symbol is a base
InitSw ==
    /\ pc = "idle"
    /\ arr \in {r \in ArraysOf(Bases \cup {"x"}, READ_LENGTH) :
                   /\ r[0] = "x"
                   /\ \A i \in 1..(READ_LENGTH-1) : r[i] \in Bases}
    /\ arr2 = [y \in 0..(READ_LENGTH-1) |->
                  [b |-> to_hw_base("x"), last |-> FALSE]]
    /\ mem = ZeroMatrix
    /\ mem2 = ZeroMatrix
    /\ trace = Uninit(0)
    /\ status = None
    /\ num = 0
    /\ fn = "sw_op"
    /\ targs = None
    /\ ret = None
    /\ ret2 = None
    /\ RangeIdle

SwHopCall ==
    /\ pc = "idle"
    /\ size(trace) < REF_LENGTH
    /\ \E s \in IF size(trace) = 0 THEN {"x"} ELSE Bases :
          /\ trace' = append(trace, s)
          /\ arr2' = rshift([b |-> to_hw_base(s), last |-> s = "x"], arr2)
    /\ mem' = systolic(fn, map("to_hw_base", arr), arr2', mem)
    /\ num' = size(trace)
    /\ pc' = "hop"
    /\ UNCHANGED <<fn, arr, targs, ret, ret2, rangeVars, status, mem2>>

SwLoopCall ==
    /\ pc = "hop"
    /\ mem2' = sloop_systolic(fn, map("to_hw_base", arr), arr2, mem2)
    /\ pc' = "idle"
    /\ UNCHANGED <<fn, arr, arr2, num, targs, ret, ret2, rangeVars, status, mem, trace>>

NextSw == SwHopCall \/ SwLoopCall

SpecSw == InitSw /\ [][NextSw]_vars

\* C15: after call ref_i (num) from the zero matrix, the newest score v of
\* row j equals the reference score at [j][ref_i - j] for every row j with
\* ref_i - 1 - j >= 0, in the fold-based and in the loop-based realization.
C15_SystolicMatchesReference ==
    (size(trace) >= 1) =>
        LET soln == soln_matrix(arr, trace) IN
        \A j \in 0..(READ_LENGTH-1) :
            (num - 1 - j >= 0) =>
                /\ mem[j][0].v = soln[j][num - j].v
                /\ pc = "idle" => mem2[j][0].v = soln[j][num - j].v

\* after the call with ref_i = 3 rows 0, 1 and 2 have been checked against
\* the reference; row 1 holds the score of a match and row 2 a score that
\* is not zero
C15_Witness ==
    /\ pc = "idle"
    /\ num = 3
    /\ arr[1] = arr2[1].b
    /\ mem2[1][0].v = MATCH
    /\ mem[2][0].v # 0
    /\ mem2[2][0].v = soln_matrix(arr, trace)[2][1].v

(***************************************************************************)
(* examples/insertion_sort: the streaming insertion sort.  A record        *)
(* isort_t is a pair: first is the value, second the boundary flag.  The   *)
(* static array arr of each realization is handed in and returned.         *)
(***************************************************************************)
LIST_LENGTH == 2    \* cells of the resident buffer (16 in the source)
MaxIsortVal == 1    \* values are drawn from -MaxIsortVal..MaxIsortVal
MaxIsortCalls == 4  \* calls made on each realization

isort_t(v, l) == [first |-> v, second |-> l]

\* a slip in MinOp: the flags stay with the cells
MinOp_flags_stay(me, past) ==
    LET in == head(past)
        comparison == (me.first < in.first) /\ ~me.second
        bump == isort_t(IF comparison THEN in.first ELSE me.first, in.second)
        newme == isort_t(IF comparison THEN me.first ELSE in.first, me.second)
    IN  prepend(bump, prepend(newme, tail(past)))

MinOp(me, past) ==
    LET in == head(past)
        comparison == (me.first < in.first) /\ ~me.second
        bump == isort_t(IF comparison THEN in.first ELSE me.first, me.second)
        newme == isort_t(IF comparison THEN me.first ELSE in.first, in.second)
    IN  prepend(bump, prepend(newme, tail(past)))

\* a slip in the combinator form: the record fed is returned
isort_hop_synth_echo(In, static_arr) ==
    LET in == [i \in {0} |-> In]
        out == rreduce("minOp", static_arr, in)
    IN  [arr |-> tail(out), return |-> In]

isort_hop_synth(In, static_arr) ==
    LET in == [i \in {0} |-> In]
        out == rreduce("minOp", static_arr, in)
    IN  [arr |-> tail(out), return |-> head(out)]

\* a slip in the loop form: the cell keeps the larger value
isort_loop_synth_max(In, static_arr) ==
    LET RECURSIVE for(_, _, _)
        for(a, bump, i) ==
            IF i >= 0
            THEN LET me == a[i]
                     comparison == (me.first > bump.first) /\ ~me.second
                     newme == isort_t(IF comparison THEN me.first
                                      ELSE bump.first, bump.second)
                     bump2 == isort_t(IF comparison THEN bump.first
                                      ELSE me.first, me.second)
                 IN  for([a EXCEPT ![i] = newme], bump2, i - 1)
            ELSE [arr |-> a, return |-> bump]
    IN  for(static_arr, In, size(static_arr) - 1)

isort_loop_synth(In, static_arr) ==
    LET RECURSIVE for(_, _, _)
        for(a, bump, i) ==
            IF i >= 0
            THEN LET me == a[i]
                     comparison == (me.first < bump.first) /\ ~me.second
                     newme == isort_t(IF comparison THEN me.first
                                      ELSE bump.first, bump.second)
                     bump2 == isort_t(IF comparison THEN bump.first
                                      ELSE me.first, me.second)
                 IN  for([a EXCEPT ![i] = newme], bump2, i - 1)
            ELSE [arr |-> a, return |-> bump]
    IN  for(static_arr, In, size(static_arr) - 1)

IsortVals == (0 - MaxIsortVal)..MaxIsortVal

\* a static array of pairs is zero-initialised
IsortZero == [i \in 0..(LIST_LENGTH-1) |-> isort_t(0, FALSE)]

(***************************************************************************)
(* Driver of the two realizations: every call feeds one record to          *)
(* isort_hop_synth and then the same record to isort_loop_synth.           *)
(* trace holds the records fed and ret, ret2 the records returned.         *)
(***************************************************************************)
InitIsortForms ==
    /\ pc = "idle"
    /\ mem = IsortZero
    /\ mem2 = IsortZero
    /\ trace = Uninit(0)
    /\ status = None
    /\ num = 0
    /\ fn = "minOp"
    /\ arr = Uninit(0)
    /\ arr2 = Uninit(0)
    /\ targs = None
    /\ ret = Uninit(0)
    /\ ret2 = Uninit(0)
    /\ RangeIdle

IsortHopCall ==
    /\ pc = "idle"
    /\ num < MaxIsortCalls
    /\ \E v \in IsortVals, l \in BOOLEAN :
          LET r == isort_hop_synth(isort_t(v, l), mem) IN
          /\ trace' = append(trace, isort_t(v, l))
          /\ mem' = r.arr
          /\ ret' = append(ret, r.return)
    /\ pc' = "hop"
    /\ UNCHANGED <<fn, arr, arr2, num, targs, ret2, rangeVars, status, mem2>>

IsortLoopCall ==
    /\ pc = "hop"
    /\ LET r == isort_loop_synth(trace[num], mem2) IN
          /\ mem2' = r.arr
          /\ ret2' = append(ret2, r.return)
    /\ num' = num + 1
    /\ pc' = "idle"
    /\ UNCHANGED <<fn, arr, arr2, targs, ret, rangeVars, status, mem, trace>>

NextIsortForms == IsortHopCall \/ IsortLoopCall

SpecIsortForms == InitIsortForms /\ [][NextIsortForms]_vars

\* C17: fed the same records from the same resident buffer, isort_hop_synth
\* and isort_loop_synth return the same record at every call and hold the
\* same resident buffer after every call.
C17_IsortFormsAgree ==
    pc = "idle" =>
        /\ mem = mem2
        /\ ret = ret2
        /\ size(ret) = num

\* both forms have been called MaxIsortCalls = 4 times; a value has been
\* kept in the buffer while a larger one was returned
C17_Witness ==
    /\ pc = "idle"
    /\ num = 4
    /\ \E t \in 0..3 : ret2[t].first > 0 /\ ret2[t].second
    /\ \E i \in 0..(LIST_LENGTH-1) : mem2[i].first < 0

\* C24 as claimed: after every call of either realization, from the zero
\* buffer and for every sequence of input records, the buffer holds its
\* values in descending order.
C24_BufferDescending ==
    \A i \in 0..(LIST_LENGTH-2) :
        /\ mem[i].first >= mem[i+1].first
        /\ mem2[i].first >= mem2[i+1].first

\* C24 as amended: after every call of either realization, from the zero
\* buffer and for every sequence of input records none of which carries
\* the boundary flag, the buffer holds its values in descending order.
C24_BufferDescendingNoFlags ==
    (\A k \in DOMAIN trace : ~trace[k].second) =>
        \A i \in 0..(LIST_LENGTH-2) :
            /\ mem[i].first >= mem[i+1].first
            /\ mem2[i].first >= mem2[i+1].first

\* three flag-clear records have been fed to both realizations, a negative
\* value has settled at the tail and a positive one has been returned
C24_Witness ==
    /\ pc = "idle"
    /\ num >= 3
    /\ \A k \in DOMAIN trace : ~trace[k].second
    /\ mem[LIST_LENGTH-1].first < mem[0].first
    /\ mem2[LIST_LENGTH-1].first < 0
    /\ \E t \in DOMAIN ret : ret[t].first > 0

\* one call of either realization moves every flag one cell towards the
\* head of the buffer
FlagsShiftStep ==
    /\ (pc = "idle" /\ pc' = "hop") =>
          /\ mem'[LIST_LENGTH-1].second = trace'[num].second
          /\ \A i \in 0..(LIST_LENGTH-2) : mem'[i].second = mem[i+1].second
          /\ ret'[num].second = mem[0].second
    /\ (pc = "hop" /\ pc' = "idle") =>
          /\ mem2'[LIST_LENGTH-1].second = trace[num].second
          /\ \A i \in 0..(LIST_LENGTH-2) : mem2'[i].second = mem2[i+1].second
          /\ ret2'[num].second = mem2[0].second

\* the flag returned at call t is the flag fed at call t-N
FlagsDelayed ==
    pc = "idle" =>
        \A t \in 0..(num - 1) :
            /\ ret[t].second = (IF t < LIST_LENGTH THEN FALSE
                                ELSE trace[t - LIST_LENGTH].second)
            /\ ret2[t].second = ret[t].second

\* C28: the boundary flags move as an N-stage shift register, whatever the
\* values: at every call of either realization the flag of cell N-1
\* becomes the flag of the record fed, the flag of cell i becomes the
\* previous flag of cell i+1, and the flag returned is the previous flag of
\* cell 0; so the flag returned at call t is the flag fed at call t-N, and
\* is clear at the first N calls.
C28_FlagsShift == [][FlagsShiftStep]_vars /\ []FlagsDelayed

\* a flag fed at the first call, and at no other, has come out of both
\* realizations at call N, between values that were exchanged on the way
C28_Witness ==
    /\ pc = "idle"
    /\ num > LIST_LENGTH + 1
    /\ trace[0].second
    /\ \A t \in 1..(num - 1) : ~trace[t].second
    /\ \A t \in 0..(num - 1) : ret[t].second = (t = LIST_LENGTH)
    /\ \A t \in 0..(num - 1) : ret2[t].second = (t = LIST_LENGTH)
    /\ trace[1].first < trace[2].first

\* how many cells of the buffer hold the value v, and 1 more if the
\* record r does
ValueCount(buf, r, v) ==
    Cardinality({i \in DOMAIN buf : buf[i].first = v})
        + (IF r.first = v THEN 1 ELSE 0)

\* one call of either realization neither loses nor duplicates a value
ValuesConservedStep ==
    /\ (pc = "idle" /\ pc' = "hop") =>
          \A v \in IsortVals :
              ValueCount(mem', ret'[num], v) = ValueCount(mem, trace'[num], v)
    /\ (pc = "hop" /\ pc' = "idle") =>
          \A v \in IsortVals :
              ValueCount(mem2', ret2'[num], v) = ValueCount(mem2, trace[num], v)

\* C29: every call of the streaming insertion sort conserves values: the
\* N values of the buffer after the call together with the value returned
\* are, as a multiset, the N values of the buffer before the call together
\* with the value fed, whatever the flags.
C29_ValuesConserved == [][ValuesConservedStep]_vars

\* a call has returned a value other than the one it was fed, from a
\* buffer that holds a flagged cell and values out of order
C29_Witness ==
    /\ pc = "idle"
    /\ num >= 3
    /\ ret[num - 1].first # trace[num - 1].first
    /\ ret2[num - 1].first # trace[num - 1].first
    /\ \E i \in 0..(LIST_LENGTH-1) : mem[i].second
    /\ mem2[0].first < mem2[LIST_LENGTH-1].first

(***************************************************************************)
(* examples/utility.hpp: check; examples/insertion_sort/test.cpp: main.    *)
(***************************************************************************)
check(TGT, GOLD) ==
    LET RECURSIVE for(_)
        for(i) ==
            IF i < size(TGT)
            THEN IF TGT[i] # GOLD[i] THEN 0 - (i + 1) ELSE for(i + 1)
            ELSE 0
    IN  for(0)

\* std::sort(first, last, std::greater<int>()): the descending arrangement
sort_greater(a) ==
    CHOOSE g \in [DOMAIN a -> {a[i] : i \in DOMAIN a}] :
        /\ \A i \in DOMAIN a : i + 1 \in DOMAIN a => g[i] >= g[i+1]
        /\ \A v \in {a[i] : i \in DOMAIN a} :
              Cardinality({i \in DOMAIN a : g[i] = v})
                  = Cardinality({i \in DOMAIN a : a[i] = v})

\* the record main builds at loop index i: input has LIST_LENGTH elements
\* and main reads input[i] for every i up to 2*LIST_LENGTH, so from
\* i = LIST_LENGTH on the value is whatever lies behind the array
IsortMainRecords(i) ==
    {isort_t(v, i = LIST_LENGTH \/ i = 0 - 1) :
        v \in IF i = 0 - 1 THEN {0}
              ELSE IF i < LIST_LENGTH THEN {arr[i]}
              ELSE IsortVals}

\* output after the call at loop index i returned out
IsortMainOutput(output, i, out) ==
    IF LIST_LENGTH + 1 <= i /\ i <= LIST_LENGTH * 2
    THEN [output EXCEPT ![i - (LIST_LENGTH + 1)] = out.first]
    ELSE output

InitIsortMain ==
    /\ pc = "hop_loop"
    /\ arr \in ArraysOf(IsortVals, LIST_LENGTH)
    /\ arr2 = sort_greater(arr)
    /\ ret = Uninit(LIST_LENGTH)
    /\ num = 0 - 1
    /\ mem = IsortZero
    /\ mem2 = IsortZero
    /\ trace = Uninit(0)
    /\ status = None
    /\ fn = "minOp"
    /\ targs = None
    /\ ret2 = None
    /\ RangeIdle

IsortMainHopCall ==
    /\ pc = "hop_loop"
    /\ num < LIST_LENGTH * 2 + 1
    /\ \E in \in IsortMainRecords(num) :
          LET r == isort_hop_synth(in, mem) IN
          /\ trace' = append(trace, in)
          /\ mem' = r.arr
          /\ ret' = IsortMainOutput(ret, num, r.return)
    /\ num' = num + 1
    /\ pc' = IF num + 1 < LIST_LENGTH * 2 + 1 THEN "hop_loop" ELSE "hop_check"
    /\ UNCHANGED <<fn, arr, arr2, targs, ret2, rangeVars, status, mem2>>

IsortMainHopCheck ==
    /\ pc = "hop_check"
    /\ IF check(ret, arr2) # 0
       THEN /\ pc' = "exit"
            /\ status' = 0 - 1
            /\ UNCHANGED <<num, trace>>
       ELSE /\ pc' = "loop_loop"
            /\ num' = 0 - 1
            /\ trace' = Uninit(0)
            /\ UNCHANGED status
    /\ UNCHANGED <<fn, arr, arr2, targs, ret, ret2, rangeVars, mem, mem2>>

IsortMainLoopCall ==
    /\ pc = "loop_loop"
    /\ num < LIST_LENGTH * 2 + 1
    /\ \E in \in IsortMainRecords(num) :
          LET r == isort_loop_synth(in, mem2) IN
          /\ trace' = append(trace, in)
          /\ mem2' = r.arr
          /\ ret' = IsortMainOutput(ret, num, r.return)
    /\ num' = num + 1
    /\ pc' = IF num + 1 < LIST_LENGTH * 2 + 1 THEN "loop_loop" ELSE "loop_check"
    /\ UNCHANGED <<fn, arr, arr2, targs, ret2, rangeVars, status, mem>>

IsortMainLoopCheck ==
    /\ pc = "loop_check"
    /\ pc' = "exit"
    /\ status' = IF check(ret, arr2) # 0 THEN 0 - 1 ELSE 0
    /\ UNCHANGED <<fn, arr, arr2, num, targs, ret, ret2, rangeVars, mem, mem2,
                   trace>>

NextIsortMain ==
    \/ IsortMainHopCall
    \/ IsortMainHopCheck
    \/ IsortMainLoopCall
    \/ IsortMainLoopCheck

SpecIsortMain == InitIsortMain /\ [][NextIsortMain]_vars

\* C16: after the 2N+2 calls - a boundary marker of value 0, the N inputs,
\* a boundary marker of value 0 at position N, N further flag-clear
\* records - the values returned at cycles N+1 .. 2N are the N inputs in
\* descending order.
C16_SortedAfterZeroMarkers ==
    (/\ pc \in {"hop_check", "loop_check"}
     /\ trace[0] = isort_t(0, TRUE)
     /\ trace[LIST_LENGTH + 1] = isort_t(0, TRUE)) =>
        ret = arr2

\* the marker fed at position N is at least every input: the values
\* returned at cycles N+1 .. 2N are the inputs in descending order
IsortSortedAfterLargeMarker ==
    (/\ pc \in {"hop_check", "loop_check"}
     /\ \A i \in 0..(LIST_LENGTH-1) : trace[LIST_LENGTH + 1].first >= arr[i]) =>
        ret = arr2

\* C30: from the zero-initialised buffer, when a start boundary record is
\* fed first, then N flag-clear inputs, then an end boundary record whose
\* value is at least every one of the N inputs, the values returned at
\* the next N calls (cycles N+1 .. 2N) are the N inputs in descending
\* order, whatever the values of the flag-clear records fed at those calls.
C30_DrainsDescending ==
    (/\ pc \in {"hop_check", "loop_check"}
     /\ trace[0].second
     /\ \A i \in 0..(LIST_LENGTH-1) :
           /\ trace[i + 1] = isort_t(arr[i], FALSE)
           /\ trace[LIST_LENGTH + 1].first >= arr[i]
     /\ trace[LIST_LENGTH + 1].second
     /\ \A i \in (LIST_LENGTH + 2)..(2 * LIST_LENGTH + 1) : ~trace[i].second) =>
        /\ \A j \in 0..(LIST_LENGTH-2) : ret[j] >= ret[j + 1]
        /\ \A v \in IsortVals :
              Cardinality({j \in 0..(LIST_LENGTH-1) : ret[j] = v})
                  = Cardinality({i \in 0..(LIST_LENGTH-1) : arr[i] = v})

\* the loop form has drained two distinct inputs, fed in ascending order
\* before an end marker larger than both, while the records fed during
\* the drain carried values above and below them
C30_Witness ==
    /\ pc = "loop_check"
    /\ arr[0] < arr[LIST_LENGTH-1]
    /\ trace[LIST_LENGTH + 1] = isort_t(MaxIsortVal, TRUE)
    /\ arr[LIST_LENGTH-1] < MaxIsortVal
    /\ trace[LIST_LENGTH + 2].first = MaxIsortVal
    /\ trace[2 * LIST_LENGTH + 1].first = 0 - MaxIsortVal
    /\ ret[0] = arr[LIST_LENGTH-1]
    /\ ret[LIST_LENGTH-1] = arr[0]

(***************************************************************************)
(* examples/finite_impulse_response: the FIR filter.  data_t, coef_t and   *)
(* acc_t are modelled by the integers: arithmetic is exact.  The static    *)
(* delay line of each function is handed in and returned.                  *)
(***************************************************************************)
C_NUM_TAPS == 3     \* taps of the filter
C_NUM_SAMPLES == 4  \* samples main feeds

FirCoeffs == {0 - 1, 0, 2}

FirSamples == {0 - 1, 1, 2}

gold_fir(signal, static_buffer, coeffs) ==
    LET buffer == rshift(signal, static_buffer)
        RECURSIVE for(_, _)
        for(acc, i) ==
            IF i < C_NUM_TAPS
            THEN for(acc + buffer[i] * coeffs[i], i + 1)
            ELSE acc
    IN  [buffer |-> buffer, return |-> for(0, 0)]

fir_hop_synth(In, static_sig, coeffs) ==
    LET sig == rshift(In, static_sig)
    IN  [sig |-> sig,
         return |-> rreduce("plus", zipWith("multiplies", sig, coeffs), 0)]

\* a slip in the loop form: the product is accumulated before the shift
fir_loop_synth_stale(In, static_sig, coeffs) ==
    LET RECURSIVE for(_, _, _)
        for(sig, acc, i) ==
            IF i > 0
            THEN for([sig EXCEPT ![i] = sig[i-1]],
                     acc + sig[i] * coeffs[i], i - 1)
            ELSE [sig |-> [sig EXCEPT ![0] = In],
                  return |-> acc + In * coeffs[0]]
    IN  for(static_sig, 0, C_NUM_TAPS - 1)

\* only C_NUM_TAPS >= 1 is modelled: for 0 the index C_NUM_TAPS - 1 wraps
fir_loop_synth(In, static_sig, coeffs) ==
    LET RECURSIVE for(_, _, _)
        for(sig, acc, i) ==
            IF i > 0
            THEN LET shifted == [sig EXCEPT ![i] = sig[i-1]]
                 IN  for(shifted, acc + shifted[i] * coeffs[i], i - 1)
            ELSE LET last == [sig EXCEPT ![0] = In]
                 IN  [sig |-> last, return |-> acc + last[0] * coeffs[0]]
    IN  for(static_sig, 0, C_NUM_TAPS - 1)

abs(x) == IF x < 0 THEN 0 - x ELSE x

\* std::abs((float)out - (float)gold) > .1
FirMismatch(out, gold) == 10 * abs(out - gold) > 1

FirZero == [i \in 0..(C_NUM_TAPS-1) |-> 0]

(***************************************************************************)
(* Driver of the FIR filter: main.  arr holds coeffs, trace the samples    *)
(* read so far, ret is out, ret2 is gold, arr2 is the buffer of gold_fir.  *)
(***************************************************************************)
InitFir ==
    /\ pc = "for"
    /\ arr \in ArraysOf(FirCoeffs, C_NUM_TAPS)
    /\ arr2 = FirZero
    /\ mem = FirZero
    /\ mem2 = FirZero
    /\ trace = Uninit(0)
    /\ status = None
    /\ num = 0
    /\ fn = None
    /\ targs = None
    /\ ret = None
    /\ ret2 = None
    /\ RangeIdle

FirHopCall ==
    /\ pc = "for"
    /\ num < C_NUM_SAMPLES
    /\ \E x \in FirSamples :
          LET r == fir_hop_synth(x, mem, arr) IN
          /\ trace' = append(trace, x)
          /\ mem' = r.sig
          /\ ret' = r.return
    /\ pc' = "gold"
    /\ UNCHANGED <<fn, arr, arr2, num, targs, ret2, rangeVars, status, mem2>>

FirGoldCall ==
    /\ pc = "gold"
    /\ LET r == gold_fir(trace[num], arr2, arr) IN
          /\ arr2' = r.buffer
          /\ ret2' = r.return
          /\ IF FirMismatch(ret, r.return)
             THEN pc' = "exit" /\ status' = 0 - 1
             ELSE pc' = "loop" /\ UNCHANGED status
    /\ UNCHANGED <<fn, arr, num, targs, ret, rangeVars, mem, mem2, trace>>

FirLoopCall ==
    /\ pc = "loop"
    /\ LET r == fir_loop_synth(trace[num], mem2, arr) IN
          /\ mem2' = r.sig
          /\ ret' = r.return
          /\ IF FirMismatch(r.return, ret2)
             THEN pc' = "exit" /\ status' = 0 - 1 /\ UNCHANGED num
             ELSE /\ num' = num + 1
                  /\ IF num + 1 < C_NUM_SAMPLES
                     THEN pc' = "for" /\ UNCHANGED status
                     ELSE pc' = "exit" /\ status' = 0
    /\ UNCHANGED <<fn, arr, arr2, targs, ret2, rangeVars, mem, trace>>

NextFir == FirHopCall \/ FirGoldCall \/ FirLoopCall

SpecFir == InitFir /\ [][NextFir]_vars

\* sample x_(t-k), zero before the first sample
FirSampleAt(t, k) == IF t - k >= 0 THEN trace[t - k] ELSE 0

FirDelayLine(t) == [k \in 0..(C_NUM_TAPS-1) |-> FirSampleAt(t, k)]

RECURSIVE FirDot(_, _)
FirDot(t, k) ==
    IF k = C_NUM_TAPS THEN 0
    ELSE arr[k] * FirSampleAt(t, k) + FirDot(t, k + 1)

\* C18: at every call t the combinator realization, the loop realization
\* and the reference return the dot product of the coefficients with the
\* delay line [x_t, x_(t-1), ..., x_(t-T+1)], zeros before the first
\* sample; each delay line holds exactly those samples.
C18_FirFormsAgree ==
    /\ pc = "gold" => ret = FirDot(num, 0) /\ mem = FirDelayLine(num)
    /\ pc = "loop" =>
          /\ ret = FirDot(num, 0)
          /\ ret2 = FirDot(num, 0)
          /\ arr2 = FirDelayLine(num)
    /\ (pc \in {"for", "exit"} /\ num >= 1) =>
          /\ ret = FirDot(num - 1, 0)
          /\ ret2 = ret
          /\ mem = FirDelayLine(num - 1)
          /\ mem2 = mem
          /\ arr2 = mem
    /\ pc = "exit" => status = 0

\* four samples have gone through a filter of three taps with distinct
\* coefficients: the first sample has been dropped
C18_Witness ==
    /\ pc = "exit"
    /\ status = 0
    /\ num = 4
    /\ arr[0] # arr[1] /\ arr[1] # arr[2] /\ arr[0] # arr[2]
    /\ trace[0] # trace[3]
    /\ mem2 = [k \in 0..2 |-> trace[3 - k]]
    /\ ret # 0

(***************************************************************************)
(* examples/argminmax/test.cpp: the arg-min reduction, as a staged table   *)
(* and as a divide-and-conquer tree.                                       *)
(***************************************************************************)
MaxArgminLog == 2   \* arg-min: arrays of length 2^k for k up to this one

\* argmin_t<T>::operator(): a value becomes the record {v, 0, 0}
argmin_t(v) == [data |-> v, idx |-> 0, lev |-> 0]

\* a slip in Argminop: the right operand also wins a tie
Argminop_le(L, R) ==
    LET RECURSIVE or(_, _)
        or(a, b) == IF a = 0 THEN b
                    ELSE IF b = 0 THEN a
                    ELSE (IF a % 2 = 1 \/ b % 2 = 1 THEN 1 ELSE 0)
                         + 2 * or(a \div 2, b \div 2)
        b == R.data <= L.data
        lev == L.lev
        res == IF b THEN R.data ELSE L.data
        idx == or((IF b THEN 1 ELSE 0) * Pow2(lev),
                  IF b THEN R.idx ELSE L.idx)
    IN  [data |-> res, idx |-> idx, lev |-> lev + 1]

\* Argminop::operator()(L, R): the right operand wins only if it is strictly
\* smaller; its outcome is or-ed into bit L.lev of the index
Argminop(L, R) ==
    LET RECURSIVE or(_, _)
        or(a, b) == IF a = 0 THEN b
                    ELSE IF b = 0 THEN a
                    ELSE (IF a % 2 = 1 \/ b % 2 = 1 THEN 1 ELSE 0)
                         + 2 * or(a \div 2, b \div 2)
        b == R.data < L.data
        lev == L.lev
        res == IF b THEN R.data ELSE L.data
        idx == or((IF b THEN 1 ELSE 0) * Pow2(lev),
                  IF b THEN R.idx ELSE L.idx)
    IN  [data |-> res, idx |-> idx, lev |-> lev + 1]

\* argmin_loop_synth: row 0 of the table holds {IN[idx], idx, 0}; row lev
\* combines the neighbours of row lev - 1
argmin_loop_synth(In) ==
    LET LEV == clog2(size(In))
        row0 == [idx \in 0..(Pow2(LEV) - 1) |->
                    [data |-> In[idx], idx |-> idx, lev |-> 0]]
        RECURSIVE lev_loop(_, _)
        lev_loop(prev, lev) ==
            IF lev <= LEV
            THEN lev_loop([idx \in 0..(Pow2(LEV - lev) - 1) |->
                              Argminop(prev[2 * idx], prev[2 * idx + 1])],
                          lev + 1)
            ELSE prev
        last == lev_loop(row0, 1)
    IN  [first |-> last[0].data, second |-> last[0].idx]

\* argmin_hop_synth: divconq(argminop, map(argmin_t<int>(), IN))
argmin_hop_synth(In) ==
    LET out == divconq("argminop", map("argmin_t", In))
    IN  [first |-> out.data, second |-> out.idx]

(***************************************************************************)
(* Driver of the arg-min example, in the order of argmin_test: the staged  *)
(* table on an input, then the tree on the same input.                     *)
(***************************************************************************)
ArgminVals == {0 - 1, 0, 1}

InitArgmin ==
    /\ pc = "idle"
    /\ \E k \in 1..MaxArgminLog : arr \in ArraysOf(ArgminVals, Pow2(k))
    /\ fn = "argminop"
    /\ arr2 = Uninit(0)
    /\ num = 0
    /\ targs = None
    /\ ret = None
    /\ ret2 = None
    /\ RangeIdle
    /\ ExIdle

ArgminLoopCall ==
    /\ pc = "idle"
    /\ fn = "argminop"
    /\ ret' = argmin_loop_synth(arr)
    /\ pc' = "argmin_loop"
    /\ UNCHANGED <<fn, arr, arr2, num, targs, ret2, rangeVars, exVars>>

ArgminHopCall ==
    /\ pc = "argmin_loop"
    /\ ret2' = argmin_hop_synth(arr)
    /\ pc' = "argmin_hop"
    /\ UNCHANGED <<fn, arr, arr2, num, targs, ret, rangeVars, exVars>>

NextArgmin == ArgminLoopCall \/ ArgminHopCall

SpecArgmin == InitArgmin /\ [][NextArgmin]_vars

C19_WitnessLate ==
    /\ pc = "argmin_hop"
    /\ size(arr) = 4
    /\ arr[3] < arr[0] /\ arr[3] < arr[1] /\ arr[3] < arr[2]
    /\ ret2 = [first |-> arr[3], second |-> 3]

(***************************************************************************)
(* examples/bitonic_sort/bitonic.hpp: the bitonic sorting network, as a    *)
(* recursion over divconq and as butterfly stages.                         *)
(***************************************************************************)
MaxBitonicLog == 2   \* bitonic sort: arrays of length 2^k for k up to this

\* Construct::operator()(A, B): the two-element array {A, B}
construct(A, B) == [i \in 0..1 |-> IF i = 0 THEN A ELSE B]

\* a slip in CAS<true>: the pair is returned as it came
CAS_true_asis(l, r) == [first |-> l, second |-> r]

\* CAS<true>, the object named min: if l <= r the pair is {r, l}, else {l, r}
CAS_true(l, r) ==
    IF l <= r THEN [first |-> r, second |-> l]
    ELSE [first |-> l, second |-> r]

\* CAS<false>, the object named max: if l >= r the pair is {r, l}, else {l, r}
CAS_false(l, r) ==
    IF l >= r THEN [first |-> r, second |-> l]
    ELSE [first |-> l, second |-> r]

\* Interleave::operator()
interleave(L, R) ==
    rreduce("concatenate", zipWith("construct", L, R), Uninit(0))

\* Bitreverse::operator()
bitreverse(In) == divconq("interleave", In)

\* the local swap of BitonicOperator:
\* compose(uncurry(concatenate), compose(unzip, partial(zipWith, min)))
swap(L, R) == uncurry("concatenate", unzip(zipWith("min", L, R)))

\* BitonicOperator::operator(): the overload for two std::array<T, 1> and
\* the one for two std::array<T, LEN>
BitonicOperator(L, R) ==
    IF size(L) = 1
    THEN uncurry("concatenate", unzip(zipWith("min", L, R)))
    ELSE LET p == unzip(zipWith("min", L, reverse(R)))
             l == divconq("swap", bitreverse(p.first))
             r == divconq("swap", bitreverse(p.second))
         IN  concatenate(bitreverse(l), bitreverse(r))

bitonic_sort(In) == divconq("bitonicOperator", In)

\* loop::bitreverse: b is t with its log2(LEN) low bits reversed
loop_bitreverse(In) ==
    LET LEN == size(In)
        LEV == log2(LEN)
        RECURSIVE j_loop(_, _, _)
        j_loop(b, t, j) ==
            IF j < LEV
            THEN j_loop(2 * b + ((t \div Pow2(j)) % 2), t, j + 1)
            ELSE b
        RECURSIVE t_loop(_, _)
        t_loop(out, t) ==
            IF t < LEN
            THEN LET b == j_loop(0, t, 0)
                     out1 == [out EXCEPT ![t] = In[b]]
                 IN  t_loop([out1 EXCEPT ![b] = In[t]], t + 1)
            ELSE out
    IN  t_loop(Uninit(LEN), 0)

\* loop::butterfly: clog2(LEN) stages; stage l applies F to the elements
\* base and base + (1 << l) of the previous stage
butterfly(F, In) ==
    LET LEN == size(In)
        LEV == clog2(LEN)
        RECURSIVE bfly_pairs(_, _, _, _)
        bfly_pairs(prev, next, l, i) ==
            IF i < Pow2(LEV - 1)
            THEN LET stride == Pow2(l)
                     grp == i \div Pow2(l)
                     top == i % stride
                     base == top + grp * Pow2(l + 1)
                     o == Apply2(F, prev[base], prev[base + stride])
                     next1 == [next EXCEPT ![base] = o.first]
                 IN  bfly_pairs(prev,
                                [next1 EXCEPT ![base + stride] = o.second],
                                l, i + 1)
            ELSE next
        RECURSIVE bfly_level(_, _)
        bfly_level(stage, l) ==
            IF l < LEV
            THEN bfly_level(bfly_pairs(stage, Uninit(LEN), l, 0), l + 1)
            ELSE stage
    IN  bfly_level(In, 0)

\* loop::BitonicStage::operator(): the overload for two std::array<T, 1> and
\* the one for two std::array<T, LEN>
BitonicStage(L, R) ==
    IF size(L) = 1
    THEN concatenate(L, R)
    ELSE LET lsub == loop_bitreverse(butterfly("max", loop_bitreverse(L)))
             rsub == loop_bitreverse(butterfly("min", loop_bitreverse(R)))
         IN  concatenate(lsub, rsub)

loop_bitonic_sort(In) ==
    loop_bitreverse(butterfly("min",
                              loop_bitreverse(divconq("bitonicStage", In))))

(***************************************************************************)
(* Driver of the bitonic sort: both realizations on one input.             *)
(***************************************************************************)
BitonicVals == 0..2

InitBitonic ==
    /\ pc = "start"
    /\ \E k \in 1..MaxBitonicLog : arr \in ArraysOf(BitonicVals, Pow2(k))
    /\ fn = None
    /\ arr2 = Uninit(0)
    /\ num = 0
    /\ targs = None
    /\ ret = None
    /\ ret2 = None
    /\ RangeIdle
    /\ ExIdle

BitonicSortCall ==
    /\ pc = "start"
    /\ ret' = bitonic_sort(arr)
    /\ pc' = "bitonic_sort"
    /\ UNCHANGED <<fn, arr, arr2, num, targs, ret2, rangeVars, exVars>>

LoopBitonicSortCall ==
    /\ pc = "bitonic_sort"
    /\ ret2' = loop_bitonic_sort(arr)
    /\ pc' = "loop_bitonic_sort"
    /\ UNCHANGED <<fn, arr, arr2, num, targs, ret, rangeVars, exVars>>

NextBitonic == BitonicSortCall \/ LoopBitonicSortCall

SpecBitonic == InitBitonic /\ [][NextBitonic]_vars

\* the number of positions of A that hold v
Count(A, v) == Cardinality({i \in DOMAIN A : A[i] = v})

\* A and B hold the same values the same number of times
IsPermutation(A, B) ==
    /\ size(A) = size(B)
    /\ \A v \in BitonicVals : Count(A, v) = Count(B, v)

\* C20: for an input of power-of-two length N >= 2 each of bitonic_sort and
\* loop::bitonic_sort returns a permutation of the input with
\* out[i] <= out[i+1] for every i in 0..N-2.
C20_BitonicAscending ==
    /\ pc \in {"bitonic_sort", "loop_bitonic_sort"} =>
        /\ IsPermutation(ret, arr)
        /\ \A i \in 0..(size(arr) - 2) : ret[i] <= ret[i + 1]
    /\ pc = "loop_bitonic_sort" =>
        /\ IsPermutation(ret2, arr)
        /\ \A i \in 0..(size(arr) - 2) : ret2[i] <= ret2[i + 1]

\* What the two realizations return instead: a permutation of the input
\* in the opposite order, out[i] >= out[i+1] for every i in 0..N-2.
BitonicDescending ==
    /\ pc \in {"bitonic_sort", "loop_bitonic_sort"} =>
        /\ IsPermutation(ret, arr)
        /\ \A i \in 0..(size(arr) - 2) : ret[i] >= ret[i + 1]
    /\ pc = "loop_bitonic_sort" =>
        /\ IsPermutation(ret2, arr)
        /\ \A i \in 0..(size(arr) - 2) : ret2[i] >= ret2[i + 1]

BitonicDescendingWitness ==
    /\ pc = "loop_bitonic_sort"
    /\ size(arr) = 4
    /\ arr[0] < arr[1] /\ arr[1] < arr[2] /\ arr[3] = arr[0]
    /\ ret = ret2
    /\ ret[0] > ret[1] /\ ret[1] > ret[2] /\ ret[2] = ret[3]

\* C27: on every input of power-of-two length N >= 2, duplicates allowed,
\* bitonic_sort and loop::bitonic_sort return the same array, and it holds
\* every value of the input as many times as the input does.
C27_BitonicFormsAgree ==
    pc = "loop_bitonic_sort" =>
        /\ ret = ret2
        /\ size(ret) = size(arr)
        /\ \A v \in BitonicVals : Count(ret, v) = Count(arr, v)

\* an input of length 4 with a duplicate, not in the order of the result,
\* has gone through both forms
C27_Witness ==
    /\ pc = "loop_bitonic_sort"
    /\ size(arr) = 4
    /\ arr[0] = arr[2] /\ arr[1] > arr[0] /\ arr[3] < arr[0]
    /\ ret # arr
    /\ ret2 = ret

(***************************************************************************)
(* examples/zip/test.cpp: main and its five tests.  Each test checks the   *)
(* combinator form, then the loop form, against gold and returns -1 from   *)
(* the first check that fails; main calls the tests one after the other.   *)
(***************************************************************************)
ZipTests == <<"zip_test", "unzip_test", "zipadd_test", "zipmul_test",
              "zipdiv_test">>

\* Div::operator(): L / R on int truncates towards zero
Div(L, R) ==
    LET q == abs(L) \div abs(R)
    IN  IF (L < 0) # (R < 0) THEN 0 - q ELSE q

\* what the realization under test returns: the result of zip.hpp, or, for
\* a realization that is defective, a result that is wrong at index 0
ZipTestOutput(test, form, linput, rinput) ==
    LET hop == form = "hop"
        right ==
          CASE test = "zip_test" ->
                  IF hop THEN zip(linput, rinput) ELSE loop_zip(linput, rinput)
            [] test = "unzip_test" ->
                  IF hop THEN unzip(zip(linput, rinput))
                  ELSE loop_unzip(zip(linput, rinput))
            [] test = "zipadd_test" ->
                  IF hop THEN zipWith("plus", linput, rinput)
                  ELSE loop_zipWith("plus", linput, rinput)
            [] test = "zipmul_test" ->
                  IF hop THEN zipWith("multiplies", linput, rinput)
                  ELSE loop_zipWith("multiplies", linput, rinput)
            [] test = "zipdiv_test" ->
                  IF hop THEN zipWith("divide", linput, rinput)
                  ELSE loop_zipWith("divide", linput, rinput)
        wrong ==
          CASE test = "zip_test" -> [right EXCEPT ![0].first = @ + 1]
            [] test = "unzip_test" -> [right EXCEPT !.second[0] = @ + 1]
            [] OTHER -> [right EXCEPT ![0] = @ + 1]
    IN  {right, wrong}

\* the condition of a test's if, gold being what the test's gold loop
\* computes: check(output, gold), for unzip_test
\* check(output.first, gold.first) || check(output.second, gold.second)
ZipTestCheck(test, output, linput, rinput) ==
    LET N == DOMAIN linput IN
    CASE test = "zip_test" ->
            check(output, [i \in N |-> [first |-> linput[i],
                                        second |-> rinput[i]]]) # 0
      [] test = "unzip_test" ->
            check(output.first, linput) # 0 \/ check(output.second, rinput) # 0
      [] test = "zipadd_test" ->
            check(output, [i \in N |-> linput[i] + rinput[i]]) # 0
      [] test = "zipmul_test" ->
            check(output, [i \in N |-> linput[i] * rinput[i]]) # 0
      [] test = "zipdiv_test" ->
            check(output, [i \in N |-> Div(linput[i], rinput[i])]) # 0

InitZipMain ==
    /\ pc = "main"
    /\ num = 1
    /\ arr \in ArraysOf({0 - 1, 0, 2}, LIST_LENGTH)
    /\ arr2 = arr
    /\ trace = Uninit(0)
    /\ status = None
    /\ mem = None
    /\ mem2 = None
    /\ fn = None
    /\ targs = None
    /\ ret = None
    /\ ret2 = None
    /\ RangeIdle

\* main calls test number num.  The test fills linput and rinput, both with
\* the array fill_normal draws from its fixed seed (zipdiv_test replaces
\* every 0 by 1), checks the combinator form and, if that passed, the loop
\* form; it returns -1 from the first check that fails, else 0, and main
\* drops the value.  trace lists the checks that were run.
ZipTestCall ==
    /\ pc = "main"
    /\ num <= Len(ZipTests)
    /\ LET test == ZipTests[num]
           fix(a) == [i \in DOMAIN a |->
                         IF test = "zipdiv_test" /\ a[i] = 0 THEN 1 ELSE a[i]]
           linput == fix(arr)
           rinput == fix(arr2)
           hop == ZipTestCheck(test, ret', linput, rinput)
           loop == ZipTestCheck(test, ret2', linput, rinput)
           ran(form, failed) == [test |-> test, form |-> form,
                                 failed |-> failed]
       IN  /\ ret' \in ZipTestOutput(test, "hop", linput, rinput)
           /\ ret2' \in ZipTestOutput(test, "loop", linput, rinput)
           /\ IF hop
              THEN /\ trace' = append(trace, ran("hop", TRUE))
                   /\ mem' = 0 - 1
              ELSE /\ trace' = append(append(trace, ran("hop", FALSE)),
                                      ran("loop", loop))
                   /\ mem' = IF loop THEN 0 - 1 ELSE 0
    /\ num' = num + 1
    /\ UNCHANGED <<pc, fn, arr, arr2, targs, rangeVars, mem2, status>>

\* after the last test main prints "Tests passed!" and returns 0
ZipMainReturn ==
    /\ pc = "main"
    /\ num > Len(ZipTests)
    /\ status' = 0
    /\ pc' = "exit"
    /\ UNCHANGED <<fn, arr, arr2, num, targs, ret, ret2, rangeVars, mem, mem2,
                   trace>>

NextZipMain == ZipTestCall \/ ZipMainReturn

SpecZipMain == InitZipMain /\ [][NextZipMain]_vars

\* C21: in every example program the first mismatch ends the process with a
\* non-zero exit status: no check runs after a failed one, and exit status
\* 0 with the final pass message is reached only when no check failed.
\* Stated of the zip example.
C21_FirstMismatchTerminates ==
    /\ \A i \in DOMAIN trace : trace[i].failed => i = size(trace) - 1
    /\ pc = "exit" /\ (\E i \in DOMAIN trace : trace[i].failed) => status # 0

\* what main of the zip example does instead: it always runs all five
\* tests and returns 0
ZipMainAlwaysPasses ==
    pc = "exit" =>
        /\ status = 0
        /\ \A t \in 1..Len(ZipTests) :
              \E i \in DOMAIN trace : trace[i].test = ZipTests[t]

\* C21 in the insertion sort example: a failed check of the combinator
\* form ends main with -1 before the loop form is run, and 0 is returned
\* only if both checks passed.
C21_IsortMainTerminates ==
    pc = "exit" =>
        /\ status = 0 => check(ret, arr2) = 0 /\ size(trace) = 2 * LIST_LENGTH + 2
        /\ check(ret, arr2) # 0 => status = 0 - 1

(***************************************************************************)
(* examples/divconq/test.cpp: the index bit reversal;                      *)
(* examples/fast_fourier_transform/fft.hpp: the radix-2 FFT, recursive and *)
(* iterative.  Interleave, Bitreverse and loop::bitreverse of fft.hpp are  *)
(* those of bitonic.hpp, line for line.                                    *)
(***************************************************************************)
MaxFftLog == 2   \* FFT: arrays of length 2^k for k up to this one

\* idx_bitreverse_hop_synth: divconq of the composition that interleaves
idx_bitreverse_hop_synth(In) ==
    divconq("compose(lreduce concatenate init, loop::zipWith construct)", In)

\* a slip in bitreverse<BITS>: the bits are read from the top down, which
\* gives the index back
idx_bitreverse_loop_synth_same(In) ==
    LET LEN == size(In)
        W == clog2(LEN)
        RECURSIVE j_loop(_, _, _)
        j_loop(b, i, j) ==
            IF j < W
            THEN j_loop(2 * b + ((i \div Pow2(W - 1 - j)) % 2), i, j + 1)
            ELSE b
    IN  [t \in 0..(LEN - 1) |-> In[j_loop(0, t, 0)]]

\* idx_bitreverse_loop_synth: bitreverse(IN), whose loop stores
\* OUT[t] = IN[bitreverse<LEN>(t)]; LIST_LENGTH is LEN at its call
idx_bitreverse_loop_synth(In) ==
    LET LEN == size(In)
        W == clog2(LEN)
        RECURSIVE j_loop(_, _, _)
        j_loop(b, i, j) ==
            IF j < W
            THEN j_loop(2 * b + ((i \div Pow2(j)) % 2), i, j + 1)
            ELSE b
        RECURSIVE t_loop(_, _)
        t_loop(OUT, t) ==
            IF t < LEN
            THEN t_loop([OUT EXCEPT ![t] = In[j_loop(0, t, 0)]], t + 1)
            ELSE OUT
    IN  t_loop(Uninit(LEN), 0)

\* FFTOP::operator(): the two outputs of the butterfly, kept as terms over
\* its level, its index and its two operands (the cosine and sine of
\* -2 pi IDX / 2^LEV are not evaluated)
fftop(CTX, DATA) ==
    [first |-> <<"to", CTX.first, CTX.second, DATA.first, DATA.second>>,
     second |-> <<"bo", CTX.first, CTX.second, DATA.first, DATA.second>>]

\* NPtFFT::operator(): depth is replicate<LEN>(log2(LEN) + 1) and indicies
\* is range<LEN>()
NPtFFT(L, R) ==
    LET LEN == size(L)
        depth == [i \in 0..(LEN - 1) |-> log2(LEN) + 1]
        indicies == [i \in 0..(LEN - 1) |-> i]
        contexts == zip(depth, indicies)
        inputs == zip(L, R)
        outputs == unzip(zipWith("fftop", contexts, inputs))
    IN  concatenate(outputs.first, outputs.second)

fft(In) == divconq("nPtFFT", bitreverse(In))

\* loop::butterfly of fft.hpp: stage l applies F with the context
\* {l + 1, top} to the elements base and base + (1 << l)
fft_butterfly(F, In) ==
    LET LEN == size(In)
        LEV == clog2(LEN)
        RECURSIVE bfly_pair(_, _, _, _)
        bfly_pair(prev, next, l, i) ==
            IF i < Pow2(LEV - 1)
            THEN LET stride == Pow2(l)
                     grp == i \div Pow2(l)
                     top == i % stride
                     base == top + grp * Pow2(l + 1)
                     in == [first |-> prev[base],
                            second |-> prev[base + stride]]
                     ctx == [first |-> l + 1, second |-> top]
                     o == Apply2(F, ctx, in)
                     next1 == [next EXCEPT ![base] = o.first]
                 IN  bfly_pair(prev,
                               [next1 EXCEPT ![base + stride] = o.second],
                               l, i + 1)
            ELSE next
        RECURSIVE bfly_level(_, _)
        bfly_level(stage, l) ==
            IF l < LEV
            THEN bfly_level(bfly_pair(stage, Uninit(LEN), l, 0), l + 1)
            ELSE stage
    IN  bfly_level(In, 0)

loop_fft(In) == fft_butterfly("fftop", loop_bitreverse(In))

(***************************************************************************)
(* Driver: on one input, the two index bit reversals of the divconq test,  *)
(* the two bit reversals of fft.hpp, then fft and loop::fft.               *)
(***************************************************************************)
InitFft ==
    /\ pc = "start"
    /\ \E k \in 1..MaxFftLog :
          arr \in ArraysOf({<<"x", v>> : v \in 0..2}, Pow2(k))
    /\ arr2 = Uninit(0)
    /\ fn = "fftop"
    /\ num = 0
    /\ targs = None
    /\ ret = None
    /\ ret2 = None
    /\ RangeIdle
    /\ ExIdle

IdxBitreverseHopCall ==
    /\ pc = "start"
    /\ ret' = idx_bitreverse_hop_synth(arr)
    /\ pc' = "idx_hop"
    /\ UNCHANGED <<callVars, ret2, rangeVars, exVars>>

IdxBitreverseLoopCall ==
    /\ pc = "idx_hop"
    /\ ret2' = idx_bitreverse_loop_synth(arr)
    /\ pc' = "idx_loop"
    /\ UNCHANGED <<callVars, ret, rangeVars, exVars>>

FftBitreverseCall ==
    /\ pc = "idx_loop"
    /\ mem' = bitreverse(arr)
    /\ mem2' = loop_bitreverse(arr)
    /\ pc' = "bitreverse"
    /\ UNCHANGED <<callVars, ret, ret2, rangeVars, trace, status>>

FftCall ==
    /\ pc = "bitreverse"
    /\ ret' = fft(arr)
    /\ pc' = "fft"
    /\ UNCHANGED <<callVars, ret2, rangeVars, exVars>>

LoopFftCall ==
    /\ pc = "fft"
    /\ ret2' = loop_fft(arr)
    /\ pc' = "loop_fft"
    /\ UNCHANGED <<callVars, ret, rangeVars, exVars>>

NextFft ==
    \/ IdxBitreverseHopCall
    \/ IdxBitreverseLoopCall
    \/ FftBitreverseCall
    \/ FftCall
    \/ LoopFftCall

SpecFft == InitFft /\ [][NextFft]_vars

\* t with its k low bits in the opposite order
RECURSIVE BitRev(_, _)
BitRev(k, t) ==
    IF k = 0 THEN 0 ELSE (t % 2) * Pow2(k - 1) + BitRev(k - 1, t \div 2)

\* the bit-reversal permutation of A, of length 2^k
BitReversed(A) ==
    LET k == CHOOSE j \in 0..30 : Pow2(j) = size(A)
    IN  [t \in DOMAIN A |-> A[BitRev(k, t)]]

\* C25: for an array A of length 2^k, k >= 1, divconq with the interleave
\* combiner returns out[t] = A[bitrev_k(t)], and so does the per-index
\* bit-reversal loop, in the divconq test and in fft.hpp.
C25_BitReversal ==
    /\ pc \in {"idx_hop", "idx_loop"} => ret = BitReversed(arr)
    /\ pc = "idx_loop" => ret2 = BitReversed(arr)
    /\ pc = "bitreverse" => mem = BitReversed(arr) /\ mem2 = BitReversed(arr)

\* an array of length 4 whose elements 1 and 2 differ has been reversed:
\* they have changed places
C25_Witness ==
    /\ pc = "bitreverse"
    /\ size(arr) = 4
    /\ arr[1] # arr[2]
    /\ ret[1] = arr[2] /\ ret2[2] = arr[1]
    /\ mem[1] = arr[2] /\ mem2[2] = arr[1]

RECURSIVE LevelFreeAtIndex0(_)
LevelFreeAtIndex0(t) ==
    IF t[1] = "x"
    THEN t
    ELSE <<t[1], IF t[3] = 0 THEN 0 ELSE t[2], t[3],
           LevelFreeAtIndex0(t[4]), LevelFreeAtIndex0(t[5])>>

\* the two forms agree on the operands, the indices, the positions, and
\* on the level wherever the index is not 0
FftFormsAgreeUpToLevelAtIndex0 ==
    pc = "loop_fft" =>
        /\ DOMAIN ret = DOMAIN ret2
        /\ \A i \in DOMAIN ret :
              LevelFreeAtIndex0(ret[i]) = LevelFreeAtIndex0(ret2[i])

\* the first butterflies of the two forms on a pair of elements: level 2
\* from NPtFFT on arrays of length 1, level 1 from the first stage of
\* loop::butterfly
FftFirstStageLevels ==
    (pc = "loop_fft" /\ size(arr) = 2) =>
        /\ ret[0] = <<"to", 2, 0, arr[0], arr[1]>>
        /\ ret2[0] = <<"to", 1, 0, arr[0], arr[1]>>

(***************************************************************************)
(* Application of the callables.                                           *)
(***************************************************************************)
Apply1(F, x) ==
    CASE F = "negate" -> 0 - x
      [] F = "truncate" -> x % 2
      [] F = "tag" -> <<"F", x>>
      [] F = "to_hw_base" -> to_hw_base(x)
      [] F = "argmin_t" -> argmin_t(x)

Apply2(F, l, r) ==
    CASE F = "minus" -> l - r
      [] F = "plus" -> l + r
      [] F = "node" -> <<"F", l, r>>
      [] F = "rshift" -> rshift(l, r)
      [] F = "partial(wrapper, sw_op)" -> Partial("wrapper", "sw_op", l, r)
      [] F = "concatenate" -> concatenate(l, r)
      [] F = "multiplies" -> l * r
      [] F = "minOp" -> MinOp(l, r)
      [] F = "flip(concatenate)" -> flip("concatenate", l, r)
      [] F = "divide" -> Div(l, r)
      [] F = "min" -> CAS_true(l, r)
      [] F = "max" -> CAS_false(l, r)
      [] F = "construct" -> construct(l, r)
      [] F = "fftop" -> fftop(l, r)

Apply3(F, a, b, c) ==
    CASE F = "triplizer" -> triple(a, b, c)
      [] F = "sw_op" -> SmithWatermanUnit(a, b, c)
      [] F = "wrapper" -> Wrapper(a, b, c)

Apply4(F, a, b, c, d) ==
    CASE F = "sw_op" -> SmithWatermanUnit_at(a, b, c, d)

ApplyArr(F, L, R) ==
    CASE F = "concatenate" -> concatenate(L, R)
      [] F = "sum" -> [i \in {0} |-> L[0] + R[0]]
      [] F = "node" -> <<"F", L, R>>
      [] F = "argminop" -> Argminop(L[0], R[0])
      [] F = "interleave" -> interleave(L, R)
      [] F = "compose(lreduce concatenate init, loop::zipWith construct)" ->
            lreduce("concatenate", Uninit(0), loop_zipWith("construct", L, R))
      [] F = "nPtFFT" -> NPtFFT(L, R)
      [] F = "swap" -> swap(L, R)
      [] F = "bitonicOperator" -> BitonicOperator(L, R)
      [] F = "bitonicStage" -> BitonicStage(L, R)

ApplyRes(F, L, R) ==
    CASE F = "argminop" -> Argminop(L, R)
      [] OTHER -> ApplyArr(F, L, R)

====
